---- MODULE Spec2Model ----
(***************************************************************************)
(* A model of lenstools.statistics.constraints: the FisherAnalysis state   *)
(* machine (rows, fiducial index, cached derivatives), the Emulator chi2   *)
(* with its chunked map, and Analysis.from_features.                       *)
(*                                                                         *)
(* Numbers: parameters and features are small integers; every quotient the *)
(* code forms is kept as an exact fraction <<numerator, denominator>> in   *)
(* lowest terms with a positive denominator, so that derivatives, matrix   *)
(* solves and chi2 values are the values the formulas of the code denote.  *)
(* Arrays are sequences (1-based); Python indices are 0-based and may be   *)
(* negative, see PyIndex.                                                  *)
(***************************************************************************)
EXTENDS Integers, Sequences, FiniteSets, TLC

(***************************************************************************)
(* Bounds of the model.                                                    *)
(***************************************************************************)
\* largest number of rows a FisherAnalysis grows to
MaxRows == 3
\* largest number of parameter points handed to Emulator.chi2
MaxPoints == 4
\* the number of pixels on a side of a convergence map
MapSide == 2

\* number of parameter columns and of feature bins of the modelled ensembles
ParIdx == {1, 2}
BinIdx == {1, 2}
NumPar == Cardinality(ParIdx)
NumBins == Cardinality(BinIdx)

(***************************************************************************)
(* Exact fractions.                                                        *)
(***************************************************************************)
Abs(x) == IF x < 0 THEN -x ELSE x
Sign(x) == IF x < 0 THEN -1 ELSE 1

RECURSIVE GCD(_, _)
GCD(a, b) == IF b = 0 THEN a ELSE GCD(b, a % b)

LowestTerms(n, d, g) == <<n \div g, d \div g>>
\* the fraction n/d (d # 0) in lowest terms, denominator positive
Frac(n, d) == LowestTerms(Sign(d) * n, Sign(d) * d, GCD(Abs(n), Abs(d)))

R(i) == <<i, 1>>
RZero == <<0, 1>>
RAdd(a, b) == Frac(a[1] * b[2] + b[1] * a[2], a[2] * b[2])
RNeg(a) == <<0 - a[1], a[2]>>
RSub(a, b) == Frac(a[1] * b[2] - b[1] * a[2], a[2] * b[2])
RMul(a, b) == Frac(a[1] * b[1], a[2] * b[2])
\* a / b for b # 0
RDiv(a, b) == Frac(a[1] * b[2], a[2] * b[1])
RIsZero(a) == a[1] = 0

\* sum of f[i] for i in 1..n, f a sequence of fractions
RECURSIVE RSum(_, _)
RSum(f, n) == IF n = 0 THEN RZero ELSE RAdd(RSum(f, n - 1), f[n])

\* a vector of integers as a vector of fractions
RVec(v) == [i \in 1..Len(v) |-> <<v[i], 1>>]
RMat(m) == [i \in 1..Len(m) |-> [j \in 1..Len(m[i]) |-> <<m[i][j], 1>>]]
Dot(a, b) == RSum([i \in 1..Len(a) |-> RMul(a[i], b[i])], Len(a))

(***************************************************************************)
(* Outcomes of a call: a returned value, or the exception it raised.       *)
(***************************************************************************)
Return(v) == [ok |-> TRUE, val |-> v]
Raise(e) == [ok |-> FALSE, val |-> e]

(***************************************************************************)
(* Matrices: a sequence of rows, the number of columns given where a       *)
(* matrix may have no rows.                                                *)
(***************************************************************************)
Transpose(A, ncols) == [j \in 1..ncols |-> [i \in 1..Len(A) |-> A[i][j]]]
\* A (n x m) times B (m x k)
MatMul(A, B, k) ==
  [i \in 1..Len(A) |->
    [j \in 1..k |-> RSum([l \in 1..Len(B) |-> RMul(A[i][l], B[l][j])], Len(B))]]
MatVec(A, v) == [i \in 1..Len(A) |-> Dot(A[i], v)]

\* A without row i and column j
Skip(r, i) == IF r < i THEN r ELSE r + 1
Minor(A, i, j) ==
  [r \in 1..(Len(A) - 1) |-> [c \in 1..(Len(A) - 1) |-> A[Skip(r, i)][Skip(c, j)]]]

\* t with the sign of a cofactor at an odd or even position
Signed(odd, t) == IF odd THEN t ELSE RNeg(t)

RECURSIVE Det(_)
Det(A) ==
  IF Len(A) = 0 THEN <<1, 1>>
  ELSE IF Len(A) = 1 THEN A[1][1]
  ELSE RSum([j \in 1..Len(A) |->
               Signed(j % 2 = 1, RMul(A[1][j], Det(Minor(A, 1, j))))], Len(A))

Cofactor(A, i, j) == Signed((i + j) % 2 = 0, Det(Minor(A, i, j)))

\* numpy.linalg.inv: the exact inverse; LinAlgError on a singular matrix
InvGivenDet(A, d) ==
  IF RIsZero(d) THEN Raise("LinAlgError")
  ELSE Return([i \in 1..Len(A) |-> [j \in 1..Len(A) |-> RDiv(Cofactor(A, j, i), d)]])
MatInv(A) == InvGivenDet(A, Det(A))

\* numpy.linalg.solve(A, B): the X with A.X = B (B with k columns);
\* LinAlgError on a singular A
SolveGivenInv(inv, B, k) ==
  IF inv.ok THEN Return(MatMul(inv.val, B, k)) ELSE Raise("LinAlgError")
Solve(A, B, k) == SolveGivenInv(MatInv(A), B, k)

\* the increasing sequence of the elements of a finite set of integers
RECURSIVE SortedSeq(_)
SortedSeq(S) ==
  IF S = {} THEN <<>>
  ELSE <<CHOOSE x \in S : \A y \in S : x <= y>>
         \o SortedSeq({z \in S : \E y \in S : y < z})

\* numpy's broadcasting a + b of two 1D arrays: equal lengths, or one of length 1
BroadcastAdd(a, b) ==
  IF Len(a) # Len(b) /\ Len(a) # 1 /\ Len(b) # 1 THEN Raise("ValueError")
  ELSE Return([i \in 1..(IF Len(a) = 1 THEN Len(b) ELSE Len(a)) |->
                RAdd(a[IF Len(a) = 1 THEN 1 ELSE i], b[IF Len(b) = 1 THEN 1 ELSE i])])

(***************************************************************************)
(* The rows of an analysis: a sequence of [p |-> parameters, f |-> feature]*)
(* with p a sequence over ParIdx and f a sequence over BinIdx.             *)
(***************************************************************************)
Model(p, f) == [p |-> p, f |-> f]
\* the models the rows are drawn from: a point, a step of 2 along the first
\* parameter (with a changed and with an unchanged feature), and a step of 1
\* along the second parameter
Models ==
  { Model(<<0, 0>>, <<0, 0>>), Model(<<2, 0>>, <<1, 1>>), Model(<<2, 0>>, <<0, 0>>),
    Model(<<0, 1>>, <<1, 0>>) }

\* Python's a[n] on a sequence of length len: the 1-based position read, n
\* counting from the end when negative; IndexError when PyIndexOk is false
PyIndex(n, len) == IF n >= 0 THEN n + 1 ELSE len + n + 1
PyIndexOk(n, len) == (IF n >= 0 THEN n + 1 ELSE len + n + 1) \in 1..len

(***************************************************************************)
(* FisherAnalysis                                                          *)
(***************************************************************************)
\* _variations: whether row i differs from the fiducial row in parameter p
Variations(rs, fid, i, p) == rs[i].p[p] # rs[PyIndex(fid, Len(rs))].p[p]
\* _variations.sum(1)[i] and _variations.sum(0)[p]
RowVariations(rs, fid, i) == Cardinality({p \in ParIdx : Variations(rs, fid, i, p)})
ParVariations(rs, fid, p) == Cardinality({i \in 1..Len(rs) : Variations(rs, fid, i, p)})

\* a faulty variant: the one-at-a-time assertion off by one
CheckAllowingTwo(rs, fid) ==
  IF ~PyIndexOk(fid, Len(rs)) THEN Raise("IndexError")
  ELSE IF \E i \in 1..Len(rs) : ~(RowVariations(rs, fid, i) <= 2)
       THEN Raise("AssertionError")
  ELSE IF \A p \in ParIdx : ParVariations(rs, fid, p) < 2 THEN Return(0)
  ELSE Return(1)

FisherCheck(rs, fid) ==
  IF ~PyIndexOk(fid, Len(rs)) THEN Raise("IndexError")
  ELSE IF \E i \in 1..Len(rs) : ~(RowVariations(rs, fid, i) < 2)
       THEN Raise("AssertionError")
  ELSE IF \A p \in ParIdx : ParVariations(rs, fid, p) < 2 THEN Return(0)
  ELSE Return(1)

\* the parameters some row varies
VariedKeys(rs, fid) == {p \in ParIdx : \E i \in 1..Len(rs) : Variations(rs, fid, i, p)}
\* where(), given the outcome c of its check() call: the keys of loc with the
\* rows stored for each key (a list when check() is 1, one row when it is 0)
WhereGivenCheck(rs, fid, c) ==
  IF ~c.ok THEN c
  ELSE IF c.val # 0 THEN
    Return([keys |-> ParIdx,
            loc |-> [p \in ParIdx |-> {i \in 1..Len(rs) : Variations(rs, fid, i, p)}]])
  ELSE
    Return([keys |-> VariedKeys(rs, fid),
            loc |-> [p \in VariedKeys(rs, fid) |->
                      CHOOSE i \in 1..Len(rs) : Variations(rs, fid, i, p)]])
FisherWhere(rs, fid) == WhereGivenCheck(rs, fid, FisherCheck(rs, fid))

\* varied: the sorted keys of where()
VariedGivenWhere(w) == IF ~w.ok THEN w ELSE Return(SortedSeq(w.val.keys))
FisherVaried(rs, fid) == VariedGivenWhere(FisherWhere(rs, fid))

\* one row of the derivatives: the finite difference along parameter p, read
\* from row i
\* a faulty variant: the parameter step taken with the wrong sign
FiniteDifferenceBackwards(rs, fi, i, p) ==
  [b \in 1..NumBins |->
    RDiv(<<rs[i].f[b] - rs[fi].f[b], 1>>, <<rs[fi].p[p] - rs[i].p[p], 1>>)]

FiniteDifference(rs, fi, i, p) ==
  [b \in 1..NumBins |->
    RDiv(<<rs[i].f[b] - rs[fi].f[b], 1>>, <<rs[i].p[p] - rs[fi].p[p], 1>>)]

DerivativesGivenWhere(rs, fid, loc, par_varied) ==
  [n \in 1..Len(par_varied) |->
    FiniteDifference(rs, PyIndex(fid, Len(rs)), loc[par_varied[n]], par_varied[n])]
DerivativesGivenCheck(rs, fid, c, w) ==
  IF ~c.ok THEN c
  ELSE IF ~(c.val = 0) THEN Raise("AssertionError")
  ELSE Return(DerivativesGivenWhere(rs, fid, w.val.loc, SortedSeq(w.val.keys)))
\* a faulty variant: the assertion on the number of rows left out
ComputeDerivativesOfAnyRows(rs, fid) ==
  DerivativesGivenCheck(rs, fid, FisherCheck(rs, fid), FisherWhere(rs, fid))

FisherComputeDerivatives(rs, fid) ==
  IF ~(Len(rs) > 1) THEN Raise("AssertionError")
  ELSE DerivativesGivenCheck(rs, fid, FisherCheck(rs, fid), FisherWhere(rs, fid))

(***************************************************************************)
(* Covariances, of integers: [shape |-> "matrix", val |-> the rows], or    *)
(* [shape |-> "vector", val |-> <<the diagonal>>] for a 1D array.          *)
(***************************************************************************)
CovVector(v) == [shape |-> "vector", val |-> <<v>>]
CovMatrix(m) == [shape |-> "matrix", val |-> m]
CovDiagonal(cov) == cov.val[1]
\* the second covariance of fisher_matrix when it is omitted
NoCov == [shape |-> "none", val |-> <<>>]

\* a faulty variant: a vector covariance multiplied in where it is divided out
YTimesVector(cov, D, k) ==
  IF cov.shape = "matrix" THEN Solve(RMat(cov.val), Transpose(D, NumBins), k)
  ELSE Return([b \in 1..NumBins |->
                [n \in 1..k |-> RMul(<<CovDiagonal(cov)[b], 1>>, D[n][b])]])

\* Y of fit and fisher_matrix: solve(cov, D^T), or (1/cov[:,newaxis]) * D^T
\* for a vector; D has k rows
FisherY(cov, D, k) ==
  IF cov.shape = "matrix" THEN Solve(RMat(cov.val), Transpose(D, NumBins), k)
  ELSE Return([b \in 1..NumBins |->
                [n \in 1..k |-> RMul(RDiv(<<1, 1>>, <<CovDiagonal(cov)[b], 1>>), D[n][b])]])

\* XY = D.Y and M = solve(XY, Y^T)
FisherXY(D, Y) == MatMul(D, Y, Len(D))
MGivenY(D, Y) ==
  IF ~Y.ok THEN Y ELSE Solve(FisherXY(D, Y.val), Transpose(Y.val, Len(D)), NumBins)
FisherM(cov, D) == MGivenY(D, FisherY(cov, D, Len(D)))

\* the derivatives attribute: [has |-> FALSE] until compute_derivatives sets it
NoDerivatives == [has |-> FALSE, val |-> <<>>]
Stored(D) == [has |-> TRUE, val |-> D]

\* "if not hasattr(self,'derivatives'): self.compute_derivatives()": the
\* outcome of that step and the derivatives attribute after it
EnsureGivenComputed(der, c) ==
  IF der.has THEN [out |-> Return(der.val), der |-> der]
  ELSE IF c.ok THEN [out |-> c, der |-> Stored(c.val)]
  ELSE [out |-> c, der |-> der]
FisherEnsureDerivatives(rs, fid, der) ==
  EnsureGivenComputed(der, IF der.has THEN Return(<<>>) ELSE FisherComputeDerivatives(rs, fid))

\* the return statement of fit: parameter_set[_fiducial, varied] + dP
FitBestFit(rs, fi, varied, M, obs) ==
  BroadcastAdd([n \in 1..Len(varied) |-> <<rs[fi].p[varied[n]], 1>>],
               MatVec(M, [b \in 1..NumBins |-> <<obs[b] - rs[fi].f[b], 1>>]))
FitGivenM(rs, fid, M, v, obs) ==
  IF ~M.ok THEN M
  ELSE IF ~PyIndexOk(fid, Len(rs)) THEN Raise("IndexError")
  ELSE IF ~v.ok THEN v
  ELSE FitBestFit(rs, PyIndex(fid, Len(rs)), v.val, M.val, obs)
FitGivenDerivatives(rs, fid, e, obs, cov) ==
  IF ~e.out.ok THEN [out |-> e.out, der |-> e.der, used |-> <<>>]
  ELSE [out |-> FitGivenM(rs, fid, FisherM(cov, e.der.val), FisherVaried(rs, fid), obs),
        der |-> e.der, used |-> e.der.val]
\* fit(observed_feature, features_covariance) on inputs of the right shapes:
\* [out |-> outcome, der |-> derivatives attribute after the call,
\*  used |-> the derivatives the linear algebra read]
FisherFit(rs, fid, der, obs, cov) ==
  FitGivenDerivatives(rs, fid, FisherEnsureDerivatives(rs, fid, der), obs, cov)

\* a faulty variant: the covariance of the observations left out
ParameterCovarianceOfIdentity(M, obs_cov, k) == MatMul(M, Transpose(M, NumBins), k)
\* M.obs_cov.M^T, or dot(M * obs_cov, M^T) for a vector
ParameterCovariance(M, obs_cov, k) ==
  IF obs_cov.shape = "matrix"
  THEN MatMul(M, MatMul(RMat(obs_cov.val), Transpose(M, NumBins), k), k)
  ELSE MatMul([i \in 1..k |->
                [b \in 1..NumBins |-> RMul(M[i][b], <<CovDiagonal(obs_cov)[b], 1>>)]],
              Transpose(M, NumBins), k)
InvGivenM(M, obs_cov, k) ==
  IF ~M.ok THEN M ELSE MatInv(ParameterCovariance(M.val, obs_cov, k))
MatrixGivenY(D, Y, obs_cov) ==
  IF ~Y.ok THEN Y
  ELSE IF obs_cov.shape = "none" THEN Return(FisherXY(D, Y.val))
  ELSE InvGivenM(MGivenY(D, Y), obs_cov, Len(D))
MatrixGivenDerivatives(e, sim_cov, obs_cov) ==
  IF ~e.out.ok THEN [out |-> e.out, der |-> e.der, used |-> <<>>]
  ELSE [out |-> MatrixGivenY(e.der.val, FisherY(sim_cov, e.der.val, Len(e.der.val)),
                             obs_cov),
        der |-> e.der, used |-> e.der.val]
\* fisher_matrix(simulated_features_covariance, observed_features_covariance)
FisherMatrix(rs, fid, der, sim_cov, obs_cov) ==
  MatrixGivenDerivatives(FisherEnsureDerivatives(rs, fid, der), sim_cov, obs_cov)

(***************************************************************************)
(* Emulator.  A parameter input is [ndim |-> 2, pts |-> the N points] for  *)
(* an (N,p) array and [ndim |-> 1, pts |-> <<the coordinates>>] for a 1D   *)
(* array; split_chunks is [given |-> FALSE, k |-> 0] for None and          *)
(* [given |-> TRUE, k |-> the integer] otherwise.                          *)
(***************************************************************************)
Points2D(pts) == [ndim |-> 2, pts |-> pts]
Point1D(x) == [ndim |-> 1, pts |-> <<x>>]
SplitNone == [given |-> FALSE, k |-> 0]
SplitInto(k) == [given |-> TRUE, k |-> k]

\* the sum of |x[c] - y[c]| over the first n coordinates
RECURSIVE Distance(_, _, _)
Distance(x, y, n) == IF n = 0 THEN 0 ELSE Distance(x, y, n - 1) + Abs(x[n] - y[n])
RECURSIVE WeightedSum(_, _, _, _)
WeightedSum(nodes, values, x, n) ==
  IF n = 0 THEN 0
  ELSE WeightedSum(nodes, values, x, n - 1)
         + values[n] * (1 + Distance(x, nodes[n], Len(x)))
\* A stand-in for scipy.interpolate.Rbf(*nodes, values) evaluated at x: a
\* function of the distances from x to the nodes that reproduces the stored
\* value at a node.
RbfValue(nodes, values, x) ==
  IF \E j \in 1..Len(nodes) : nodes[j] = x
  THEN values[CHOOSE j \in 1..Len(nodes) : nodes[j] = x]
  ELSE WeightedSum(nodes, values, x, Len(nodes))
\* _interpolate_wrapper(Rbf, args, kwargs) holds the training nodes and values
\* of one bin; calling it builds the Rbf over them and changes nothing.
InterpolateWrapper(nodes, values) == [nodes |-> nodes, values |-> values]
WrapperCall(w) == w

\* interpolator[n]()(*args) with one scalar per coordinate.  With as many
\* coordinates as the nodes have, the value at that point.  With a single
\* coordinate c for nodes of several, an Rbf that checks its arguments
\* (strict) raises and one that broadcasts them evaluates at (c, ..., c).
RbfCall(f, args, strict) ==
  IF Len(args) = Len(f.nodes[1]) THEN Return(RbfValue(f.nodes, f.values, args))
  ELSE IF Len(args) = 1 /\ ~strict
       THEN Return(RbfValue(f.nodes, f.values, [c \in 1..Len(f.nodes[1]) |-> args[1]]))
  ELSE Raise("ValueError")

\* Emulator.train(): one interpolator per feature bin, over all parameters
EmulatorTrain(rs) ==
  [n \in 1..NumBins |->
    InterpolateWrapper([j \in 1..Len(rs) |-> rs[j].p], [j \in 1..Len(rs) |-> rs[j].f[n]])]

\* _predict(parameters, num_bins, interpolator) for one point given as its
\* coordinates: the interpolated feature, or the exception of a bin
PredictPoint(x, num_bins, interpolator, strict) ==
  IF \E n \in 1..num_bins : ~RbfCall(WrapperCall(interpolator[n]), x, strict).ok
  THEN Raise("ValueError")
  ELSE Return([n \in 1..num_bins |->
                <<RbfCall(WrapperCall(interpolator[n]), x, strict).val, 1>>])

\* the sandwich product (obs - model).inverse_covariance.(obs - model)
Sandwich(d, inverse_covariance) ==
  Dot(MatVec(Transpose(inverse_covariance, Len(d)), d), d)
Chi2GivenFeature(model_feature, kw) ==
  IF ~model_feature.ok THEN model_feature
  ELSE Return(Sandwich([b \in 1..kw.num_bins |->
                         RSub(<<kw.observed_feature[b], 1>>, model_feature.val[b])],
                       kw.inverse_covariance))
Chi2Point(x, kw, strict) ==
  Chi2GivenFeature(PredictPoint(x, kw.num_bins, kw.interpolator, strict), kw)

\* chi2(parameters, **kwargs) of the module on one chunk: a scalar for a 1D
\* chunk, one value per point for a 2D chunk (here both as a sequence)
Chi2Chunk(chunk, kw, strict) ==
  IF \E i \in 1..Len(chunk.pts) : ~Chi2Point(chunk.pts[i], kw, strict).ok
  THEN Raise("ValueError")
  ELSE Return([i \in 1..Len(chunk.pts) |-> Chi2Point(chunk.pts[i], kw, strict).val])

\* parameters[a:b]: rows a..b-1 of an (N,p) array, coordinates a..b-1 of a 1D one
Slice(parameters, a, b) ==
  IF parameters.ndim = 2 THEN Points2D(SubSeq(parameters.pts, a + 1, b))
  ELSE Point1D(SubSeq(parameters.pts[1], a + 1, b))

NumPoints(parameters) == IF parameters.ndim = 1 THEN 1 ELSE Len(parameters.pts)

\* a faulty variant: the chunks taken from the last slice to the first
ChunksFromTheEnd(parameters, split_chunks, chunk_length) ==
  [n \in 1..split_chunks |->
    Slice(parameters, (split_chunks - n) * chunk_length, (split_chunks - n + 1) * chunk_length)]
\* the list of chunks of Emulator.chi2
ChunksOfLength(parameters, split_chunks, chunk_length) ==
  [n \in 1..split_chunks |-> Slice(parameters, (n - 1) * chunk_length, n * chunk_length)]
ParameterChunks(parameters, split) ==
  IF ~split.given THEN Return(<<parameters>>)
  ELSE IF split.k > 0 THEN
    IF NumPoints(parameters) % split.k # 0 THEN Raise("AssertionError")
    ELSE Return(ChunksOfLength(parameters, split.k, NumPoints(parameters) \div split.k))
  ELSE Raise("ValueError")

\* the keyword arguments handed to every chunk evaluation
Chi2Kwargs(interpolator, observed_feature, covinv) ==
  [num_bins |-> NumBins, interpolator |-> interpolator,
   inverse_covariance |-> covinv, observed_feature |-> observed_feature]

\* the values of a list of chunk results, in the order of the list
RECURSIVE Concat(_, _)
Concat(list, n) == IF n = 0 THEN <<>> ELSE Concat(list, n - 1) \o list[n].val
\* np.array(chi2_list).reshape(num_points), an exception of a chunk passed on
Reshape(chi2_list, num_points) ==
  IF \E i \in 1..Len(chi2_list) : ~chi2_list[i].ok THEN Raise("ValueError")
  ELSE IF Len(Concat(chi2_list, Len(chi2_list))) # num_points THEN Raise("ValueError")
  ELSE Return(Concat(chi2_list, Len(chi2_list)))

\* map(chi2_wrapper, parameter_chunks)
MapChi2(chunks, kw, strict) == [i \in 1..Len(chunks) |-> Chi2Chunk(chunks[i], kw, strict)]

\* Emulator.chi2 without a pool, from the chunking on, the emulator trained:
\* [out |-> outcome, chunks |-> the chunks made]
Chi2GivenChunks(chunks, parameters, kw, strict) ==
  IF ~chunks.ok THEN [out |-> chunks, chunks |-> <<>>]
  ELSE IF ~kw.ok THEN [out |-> kw, chunks |-> chunks.val]
  ELSE [out |-> Reshape(MapChi2(chunks.val, kw.val, strict), NumPoints(parameters)),
        chunks |-> chunks.val]
KwargsGivenInverse(interpolator, observed_feature, covinv) ==
  IF ~covinv.ok THEN covinv
  ELSE Return(Chi2Kwargs(interpolator, observed_feature, covinv.val))
EmulatorChi2(interpolator, parameters, observed_feature, features_covariance, split, strict) ==
  Chi2GivenChunks(ParameterChunks(parameters, split), parameters,
                  KwargsGivenInverse(interpolator, observed_feature,
                                     MatInv(RMat(features_covariance))),
                  strict)

NoInterpolator == [has |-> FALSE, val |-> <<>>]
Trained(list) == [has |-> TRUE, val |-> list]
\* if not hasattr(self, "_interpolator"): self.train()
EnsureTrained(interp, rs) == IF interp.has THEN interp ELSE Trained(EmulatorTrain(rs))

\* the chunks handed to pool.map: each pending, running on a worker or done
NoCall == [active |-> FALSE, arg |-> <<>>, chunks |-> <<>>, kwargs |-> <<>>,
           slots |-> <<>>, order |-> <<>>]
Pending == [st |-> "pending", out |-> Return(<<>>)]
Running == [st |-> "running", out |-> Return(<<>>)]
Done(out) == [st |-> "done", out |-> out]
Mapping(arg, chunks, kw) ==
  [active |-> TRUE, arg |-> arg, chunks |-> chunks, kwargs |-> kw,
   slots |-> [i \in 1..Len(chunks) |-> Pending], order |-> <<>>]
\* a faulty variant: the results in the order the evaluations completed
PoolMapInCompletionOrder(c) == [n \in 1..Len(c.order) |-> c.slots[c.order[n]].out]
\* the list pool.map returns: the results in the order of the chunks
PoolMap(c) == [i \in 1..Len(c.slots) |-> c.slots[i].out]

(***************************************************************************)
(* ConvergenceMap.  kappa is a square array of integers, a sequence of     *)
(* rows; an attribute that may be absent (gradient_x, ..., hessian_xy) is  *)
(* <<>> when absent and <<value>> when present.  The kernels of the        *)
(* external _topology module and of scipy.ndimage are stood in for by      *)
(* periodic finite differences and by integer averages.                    *)
(***************************************************************************)
Side(kappa) == Len(kappa)
Wrap(i, n) == ((i - 1) % n) + 1
Pixels(n, f(_, _)) == [i \in 1..n |-> [j \in 1..n |-> f(i, j)]]
\* _topology.gradient(kappa) and _topology.hessian(kappa)
DiffX(k) == Pixels(Side(k), LAMBDA i, j : k[i][Wrap(j + 1, Side(k))] - k[i][j])
DiffY(k) == Pixels(Side(k), LAMBDA i, j : k[Wrap(i + 1, Side(k))][j] - k[i][j])
TopologyGradient(kappa) == [x |-> DiffX(kappa), y |-> DiffY(kappa)]
TopologyHessian(kappa) ==
  [xx |-> DiffX(DiffX(kappa)), yy |-> DiffY(DiffY(kappa)), xy |-> DiffY(DiffX(kappa))]
\* the sum of the pixels of rows 1..i, row i read up to column j
RECURSIVE PixelSum(_, _, _)
PixelSum(k, i, j) ==
  IF i = 0 THEN 0
  ELSE IF j = 0 THEN PixelSum(k, i - 1, Side(k))
  ELSE PixelSum(k, i, j - 1) + k[i][j]
Total(k) == PixelSum(k, Side(k), Side(k))
\* filters.gaussian_filter(kappa, scale), scale a fraction: a kernel narrower
\* than a pixel averages each pixel with its right neighbour, a wider one
\* replaces every pixel by the mean of the map (integer parts)
GaussianFilter(kappa, scale) ==
  IF scale[1] < scale[2]
  THEN Pixels(Side(kappa),
              LAMBDA i, j : (kappa[i][j] + kappa[i][Wrap(j + 1, Side(kappa))]) \div 2)
  ELSE Pixels(Side(kappa), LAMBDA i, j : Total(kappa) \div (Side(kappa) * Side(kappa)))

\* a map object: ConvergenceMap(kappa, angle) has no derivative attributes
Absent == <<>>
Present(v) == <<v>>
ConvergenceMap(kappa, angle) ==
  [kappa |-> kappa, side_angle |-> angle,
   gradient_x |-> Absent, gradient_y |-> Absent,
   hessian_xx |-> Absent, hessian_yy |-> Absent, hessian_xy |-> Absent]
NoMap == ConvergenceMap(<<>>, 0)
HasAttr(v) == v # Absent

\* gradient() and hessian(): the map after the call
WithGradient(m, g) == [m EXCEPT !.gradient_x = Present(g.x), !.gradient_y = Present(g.y)]
MapGradient(m) == WithGradient(m, TopologyGradient(m.kappa))
WithHessian(m, h) ==
  [m EXCEPT !.hessian_xx = Present(h.xx), !.hessian_yy = Present(h.yy),
            !.hessian_xy = Present(h.xy)]
MapHessian(m) == WithHessian(m, TopologyHessian(m.kappa))
\* "if not (hasattr gradient_x and hasattr gradient_y): self.gradient()" and
\* the same for the three Hessian attributes
EnsureGradient(m) ==
  IF ~(HasAttr(m.gradient_x) /\ HasAttr(m.gradient_y)) THEN MapGradient(m) ELSE m
EnsureHessian(m) ==
  IF ~(HasAttr(m.hessian_xx) /\ HasAttr(m.hessian_yy) /\ HasAttr(m.hessian_xy))
  THEN MapHessian(m) ELSE m
EnsureDerivatives(m) == EnsureHessian(EnsureGradient(m))
\* the derivative arrays a measurement reads
DerivativesRead(m) ==
  [gradient_x |-> m.gradient_x[1], gradient_y |-> m.gradient_y[1],
   hessian_xx |-> m.hessian_xx[1], hessian_yy |-> m.hessian_yy[1],
   hessian_xy |-> m.hessian_xy[1]]

\* 0.5 * (thresholds[:-1] + thresholds[1:])
Midpoints(thresholds) ==
  [n \in 1..(Len(thresholds) - 1) |-> Frac(thresholds[n] + thresholds[n + 1], 2)]
\* minkowskiFunctionals(thresholds) with norm=False, thresholds <<>> for None:
\* [out |-> outcome, map |-> the map after the call, used |-> derivatives read].
\* What _topology.minkowski returns is kept as the arguments it is called on.
MinkowskiGivenMap(m, thresholds) ==
  [out |-> Return([midpoints |-> Midpoints(thresholds),
                   v |-> [kappa |-> m.kappa, derivatives |-> DerivativesRead(m),
                          thresholds |-> thresholds, sigma |-> 1]]),
   map |-> m, used |-> DerivativesRead(m)]
MapMinkowski(m, thresholds) ==
  IF thresholds = <<>> THEN [out |-> Raise("AssertionError"), map |-> m, used |-> <<>>]
  ELSE MinkowskiGivenMap(EnsureDerivatives(m), thresholds)

\* the sum over the pixels of f(i, j)
SumOver(n, f(_, _)) == Total(Pixels(n, f))
\* moments(): of the nine moments, the sums over the pixels behind sigma1
\* squared and behind the cubic and quartic moments that read the derivatives
\* (S1, S2, K1, K2, K3), which are their means times the number of pixels
GradientSquared(d, i, j) ==
  d.gradient_x[i][j] * d.gradient_x[i][j] + d.gradient_y[i][j] * d.gradient_y[i][j]
Laplacian(d, i, j) == d.hessian_xx[i][j] + d.hessian_yy[i][j]
MomentSums(k, d) ==
  [sigma1 |-> SumOver(Side(k), LAMBDA i, j : GradientSquared(d, i, j)),
   S1 |-> SumOver(Side(k), LAMBDA i, j : k[i][j] * k[i][j] * Laplacian(d, i, j)),
   S2 |-> SumOver(Side(k), LAMBDA i, j : GradientSquared(d, i, j) * Laplacian(d, i, j)),
   K1 |-> SumOver(Side(k), LAMBDA i, j : k[i][j] * k[i][j] * k[i][j] * Laplacian(d, i, j)),
   K2 |-> SumOver(Side(k), LAMBDA i, j :
                 k[i][j] * GradientSquared(d, i, j) * Laplacian(d, i, j)),
   K3 |-> SumOver(Side(k), LAMBDA i, j : GradientSquared(d, i, j) * GradientSquared(d, i, j))]
MomentsGivenMap(m) ==
  [out |-> Return(MomentSums(m.kappa, DerivativesRead(m))), map |-> m,
   used |-> DerivativesRead(m)]
MapMoments(m) == MomentsGivenMap(EnsureDerivatives(m))

\* smooth(angle_in_arcmin, kind, inplace):
\* [out |-> outcome (a new map, or <<>> for None), map |-> self after the call]
SmoothingScale(m, angle_in_arcmin) == Frac(angle_in_arcmin * Side(m.kappa), m.side_angle * 60)
RecomputeHessian(m) ==
  IF HasAttr(m.hessian_xx) \/ HasAttr(m.hessian_yy) \/ HasAttr(m.hessian_xy)
  THEN MapHessian(m) ELSE m
\* a faulty variant: the gradient attributes left as they are
KeepGradient(m) == m
RecomputeGradient(m) ==
  IF HasAttr(m.gradient_x) \/ HasAttr(m.gradient_y) THEN MapGradient(m) ELSE m
SmoothInPlace(m, smoothed_kappa) ==
  RecomputeHessian(RecomputeGradient([m EXCEPT !.kappa = smoothed_kappa]))
\* a faulty variant: the map overwritten whatever inplace says
SmoothAlwaysInPlace(m, smoothed_kappa, inplace) ==
  [out |-> IF inplace THEN Return(<<>>)
                      ELSE Return(ConvergenceMap(smoothed_kappa, m.side_angle)),
   map |-> SmoothInPlace(m, smoothed_kappa)]
SmoothGivenKappa(m, smoothed_kappa, inplace) ==
  IF inplace THEN [out |-> Return(<<>>), map |-> SmoothInPlace(m, smoothed_kappa)]
  ELSE [out |-> Return(ConvergenceMap(smoothed_kappa, m.side_angle)), map |-> m]
MapSmooth(m, angle_in_arcmin, kind, inplace) ==
  IF kind # "gaussian" THEN [out |-> Raise("AssertionError"), map |-> m]
  ELSE SmoothGivenKappa(m, GaussianFilter(m.kappa, SmoothingScale(m, angle_in_arcmin)),
                        inplace)

\* the right-hand side of an addition: a map, a Python float, an integer, an
\* array or a string; the fields that do not apply are empty or zero
RhsMap(m) == [type |-> "ConvergenceMap", kappa |-> m.kappa, side_angle |-> m.side_angle, value |-> 0]
RhsFloat(x) == [type |-> "float", kappa |-> <<>>, side_angle |-> 0, value |-> x]
RhsInt(x) == [type |-> "int", kappa |-> <<>>, side_angle |-> 0, value |-> x]
RhsArray(a) == [type |-> "ndarray", kappa |-> a, side_angle |-> 0, value |-> 0]
RhsString == [type |-> "str", kappa |-> <<>>, side_angle |-> 0, value |-> 0]
Shape(a) == <<Len(a), IF Len(a) = 0 THEN 0 ELSE Len(a[1])>>
AddArrays(a, b) == Pixels(Side(a), LAMBDA i, j : a[i][j] + b[i][j])
AddScalar(a, x) == Pixels(Side(a), LAMBDA i, j : a[i][j] + x)
\* __add__(rhs)
AddNewMap(m, new_kappa) == Return(ConvergenceMap(new_kappa, m.side_angle))
MapAdd(m, rhs) ==
  IF rhs.type = "ConvergenceMap" THEN
    IF ~(m.side_angle = rhs.side_angle) THEN Raise("AssertionError")
    ELSE IF ~(Shape(m.kappa) = Shape(rhs.kappa)) THEN Raise("AssertionError")
    ELSE AddNewMap(m, AddArrays(m.kappa, rhs.kappa))
  ELSE IF rhs.type = "float" THEN AddNewMap(m, AddScalar(m.kappa, rhs.value))
  ELSE IF rhs.type = "ndarray" THEN
    IF ~(Shape(rhs.kappa) = Shape(m.kappa)) THEN Raise("AssertionError")
    ELSE AddNewMap(m, AddArrays(m.kappa, rhs.kappa))
  ELSE Raise("TypeError")

(***************************************************************************)
(* State of one FisherAnalysis and the outcome of the last call on it.     *)
(***************************************************************************)
VARIABLES
  rows,         \* the ensemble: a sequence of Models
  fiducial,     \* _fiducial
  derivatives,  \* the derivatives attribute (NoDerivatives or Stored(D))
  ret,          \* the last call: [op, arg, ok, val, used]
  interpolator, \* the _interpolator attribute (NoInterpolator or Trained(list))
  call,         \* the Emulator.chi2 call whose chunks a pool is evaluating
  strict,       \* whether the Rbf of the build checks its arguments
  map           \* a ConvergenceMap object

vars == <<rows, fiducial, derivatives, ret, interpolator, call, strict, map>>
emulator == <<interpolator, call, strict>>

\* the covariances handed to fit and fisher_matrix: valid (symmetric positive
\* definite) ones, as a diagonal vector and as a full matrix
Covariances == {CovVector(<<1, 2>>), CovMatrix(<< <<2, 1>>, <<1, 2>> >>)}
\* the observed features handed to fit
Observations == {m.f : m \in Models}
\* the integers handed to set_fiducial
FiducialArgs == {0 - MaxRows - 1, -1} \cup 0..MaxRows

Called(op, arg, out, used) ==
  [op |-> op, arg |-> arg, ok |-> out.ok, val |-> out.val, used |-> used]

\* Ensemble.add_model / remove_model(-1): append one row in place, drop the last
EnsembleAddModel(rs, m) == Append(rs, m)
EnsembleRemoveLast(rs) == SubSeq(rs, 1, Len(rs) - 1)

Init ==
  /\ rows \in {<<m>> : m \in Models} \cup {<<m, n>> : m \in Models, n \in Models}
  /\ fiducial = 0
  /\ derivatives = NoDerivatives
  /\ ret = Called("init", <<>>, Return(<<>>), <<>>)
  /\ interpolator = NoInterpolator
  /\ call = NoCall
  /\ strict = TRUE
  /\ map = NoMap

\* FisherAnalysis.add_model(parameters, feature)
AddModel(m) ==
  /\ Len(rows) < MaxRows
  /\ IF FisherCheck(EnsembleAddModel(rows, m), fiducial).ok
     THEN /\ rows' = EnsembleAddModel(rows, m)
          /\ ret' = Called("add_model", <<>>, Return(<<>>), <<>>)
     ELSE /\ rows' = EnsembleRemoveLast(EnsembleAddModel(rows, m))
          /\ ret' = Called("add_model", <<>>, Raise("RuntimeError"), <<>>)
  /\ UNCHANGED <<fiducial, derivatives, emulator, map>>

\* FisherAnalysis.set_fiducial(n)
SetFiducial(n) ==
  /\ IF n < Len(rows)
     THEN /\ fiducial' = n
          /\ ret' = Called("set_fiducial", n, Return(<<>>), <<>>)
     ELSE /\ fiducial' = fiducial
          /\ ret' = Called("set_fiducial", n, Raise("AssertionError"), <<>>)
  /\ UNCHANGED <<rows, derivatives, emulator, map>>

\* FisherAnalysis.check()
Check ==
  /\ ret' = Called("check", <<>>, FisherCheck(rows, fiducial), <<>>)
  /\ UNCHANGED <<rows, fiducial, derivatives, emulator, map>>

\* FisherAnalysis.compute_derivatives()
ComputeDerivatives ==
  /\ ret' = Called("compute_derivatives", <<>>,
                   FisherComputeDerivatives(rows, fiducial), <<>>)
  /\ derivatives' = IF ret'.ok THEN Stored(ret'.val) ELSE derivatives
  /\ UNCHANGED <<rows, fiducial, emulator, map>>

\* FisherAnalysis.fit(observed_feature, features_covariance)
CallReturns(op, arg, r) ==
  /\ derivatives' = r.der
  /\ ret' = Called(op, arg, r.out, r.used)
  /\ UNCHANGED <<rows, fiducial, emulator, map>>
Fit(obs, cov) ==
  CallReturns("fit", <<obs, cov>>, FisherFit(rows, fiducial, derivatives, obs, cov))

\* FisherAnalysis.fisher_matrix(simulated_features_covariance[, observed_...])
FisherMatrixCall(sim_cov, obs_cov) ==
  CallReturns("fisher_matrix", <<sim_cov, obs_cov>>,
              FisherMatrix(rows, fiducial, derivatives, sim_cov, obs_cov))

Next ==
  \/ \E m \in Models : AddModel(m)
  \/ \E n \in FiducialArgs : SetFiducial(n)
  \/ Check
  \/ ComputeDerivatives
  \/ \E obs \in Observations, cov \in Covariances : Fit(obs, cov)
  \/ \E sim_cov \in Covariances, obs_cov \in Covariances \cup {NoCov} :
       FisherMatrixCall(sim_cov, obs_cov)

Spec == Init /\ [][Next]_vars

(***************************************************************************)
(* Analysis.reparametrize and Analysis.transform, and the reparametrize of *)
(* FisherAnalysis.  A transformation is a callable on one row; here one of *)
(* three that keep the length of the row.                                  *)
(***************************************************************************)
Transformations == {"double", "reverse", "shift"}
Apply(t, v) ==
  IF t = "double" THEN [i \in 1..Len(v) |-> 2 * v[i]]
  ELSE IF t = "reverse" THEN [i \in 1..Len(v) |-> v[Len(v) + 1 - i]]
  ELSE [i \in 1..Len(v) |-> v[i] + 1]
\* self.copy(): a new ensemble holding the same rows
EnsembleCopy(rs) == rs
\* copy["parameters"] = self["parameters"].apply(transformation, axis=1)
SetParameters(copy, rs, t) ==
  [i \in 1..Len(copy) |-> Model(Apply(t, rs[i].p), copy[i].f)]
SetFeatures(copy, rs, t) ==
  [i \in 1..Len(copy) |-> Model(copy[i].p, Apply(t, rs[i].f))]
\* Analysis.reparametrize(transformation) and Analysis.transform(transformation)
AnalysisReparametrize(rs, t) == Return(SetParameters(EnsembleCopy(rs), rs, t))
AnalysisTransform(rs, t) == Return(SetFeatures(EnsembleCopy(rs), rs, t))
\* FisherAnalysis.reparametrize(formatter): the parent method is called and what
\* it returns is dropped, then self.check() runs; the method returns nothing
ReparametrizeGivenCheck(parent, c) ==
  IF ~parent.ok THEN parent
  ELSE IF ~c.ok THEN c
  ELSE Return(<<>>)
FisherReparametrize(rs, fid, t) ==
  ReparametrizeGivenCheck(AnalysisReparametrize(rs, t), FisherCheck(rs, fid))

\* FisherAnalysis.reparametrize(transformation)
Reparametrize(t) ==
  /\ ret' = Called("reparametrize", t, FisherReparametrize(rows, fiducial, t), <<>>)
  /\ UNCHANGED <<rows, fiducial, derivatives, emulator, map>>

\* FisherAnalysis.transform(transformation), inherited from Analysis
Transform(t) ==
  /\ ret' = Called("transform", t, AnalysisTransform(rows, t), <<>>)
  /\ UNCHANGED <<rows, fiducial, derivatives, emulator, map>>

\* Emulator.reparametrize and Emulator.transform, both inherited from Analysis
EmulatorReparametrize(t) ==
  /\ ~call.active
  /\ ret' = Called("reparametrize", t, AnalysisReparametrize(rows, t), <<>>)
  /\ UNCHANGED <<rows, fiducial, derivatives, emulator, map>>
EmulatorTransform(t) ==
  /\ ~call.active
  /\ ret' = Called("transform", t, AnalysisTransform(rows, t), <<>>)
  /\ UNCHANGED <<rows, fiducial, derivatives, emulator, map>>

\* a FisherAnalysis under the calls that read it without using derivatives
NextQueries ==
  \/ \E m \in Models : AddModel(m)
  \/ \E n \in FiducialArgs : SetFiducial(n)
  \/ \E t \in Transformations : Reparametrize(t)
  \/ \E t \in Transformations : Transform(t)

SpecQueries == Init /\ [][NextQueries]_vars

(***************************************************************************)
(* An Emulator over a training set, its chi2 called with and without a     *)
(* worker pool.  With a pool the chunks are evaluated one by one, by any   *)
(* worker in any order, between the call and its return.                   *)
(***************************************************************************)
EmulatorRows ==
  << Model(<<0, 0>>, <<0, 0>>), Model(<<2, 0>>, <<1, 1>>), Model(<<0, 1>>, <<1, 0>>) >>
\* the points chi2 is asked about: the n-th is (n mod 3, n div 2); the third
\* is a training node, the others lie off the nodes
PointAt(n) == <<n % 3, n \div 2>>
PointList(first, n) == [i \in 1..n |-> PointAt(first + i - 1)]
ParameterInputs ==
  {Point1D(PointAt(i)) : i \in {3, 4}}
    \cup {Points2D(PointList(first, n)) : first \in {1, 2}, n \in 1..MaxPoints}
SplitArgs == {SplitNone} \cup {SplitInto(k) : k \in -1..MaxPoints}
EmulatorObserved == <<1, 0>>
EmulatorCovariance == << <<2, 1>>, <<1, 2>> >>

Chi2Arg(parameters, split, pool) ==
  [parameters |-> parameters, observed_feature |-> EmulatorObserved,
   features_covariance |-> EmulatorCovariance, split_chunks |-> split, pool |-> pool]

InitEmulator ==
  /\ rows = EmulatorRows
  /\ fiducial = 0
  /\ derivatives = NoDerivatives
  /\ ret = Called("init", <<>>, Return(<<>>), <<>>)
  /\ interpolator = NoInterpolator
  /\ call = NoCall
  /\ strict \in BOOLEAN
  /\ map = NoMap

\* Emulator.train()
Train ==
  /\ ~call.active
  /\ interpolator' = Trained(EmulatorTrain(rows))
  /\ ret' = Called("train", <<>>, Return(<<>>), <<>>)
  /\ UNCHANGED <<rows, fiducial, derivatives, call, strict, map>>

\* Emulator.chi2(parameters, observed_feature, features_covariance,
\* split_chunks) without a pool
Chi2Returns(arg, r) == ret' = Called("chi2", arg, r.out, r.chunks)
Chi2(parameters, split) ==
  /\ ~call.active
  /\ interpolator' = EnsureTrained(interpolator, rows)
  /\ Chi2Returns(Chi2Arg(parameters, split, FALSE),
                 EmulatorChi2(interpolator'.val, parameters, EmulatorObserved,
                              EmulatorCovariance, split, strict))
  /\ UNCHANGED <<rows, fiducial, derivatives, call, strict, map>>

\* Emulator.chi2(..., pool=pool) up to pool.map: the chunks are handed to the
\* pool, unless the call has failed before
PoolStarts(arg, chunks, kw) ==
  IF chunks.ok /\ kw.ok
  THEN /\ call' = Mapping(arg, chunks.val, kw.val)
       /\ ret' = Called("pool.map", arg, Return(<<>>), chunks.val)
  ELSE /\ call' = call
       /\ Chi2Returns(arg, Chi2GivenChunks(chunks, arg.parameters, kw, strict))
Chi2WithPool(parameters, split) ==
  /\ ~call.active
  /\ interpolator' = EnsureTrained(interpolator, rows)
  /\ PoolStarts(Chi2Arg(parameters, split, TRUE), ParameterChunks(parameters, split),
                KwargsGivenInverse(interpolator'.val, EmulatorObserved,
                                   MatInv(RMat(EmulatorCovariance))))
  /\ UNCHANGED <<rows, fiducial, derivatives, strict, map>>

\* a worker of the pool takes chunk i
WorkerTakes(i) ==
  /\ call.active /\ i <= Len(call.slots) /\ call.slots[i].st = "pending"
  /\ call' = [call EXCEPT !.slots[i] = Running]
  /\ UNCHANGED <<rows, fiducial, derivatives, ret, interpolator, strict, map>>

\* the worker returns chi2(chunk i, **kwargs)
WorkerReturns(i) ==
  /\ call.active /\ i <= Len(call.slots) /\ call.slots[i].st = "running"
  /\ call' = [call EXCEPT !.slots[i] = Done(Chi2Chunk(call.chunks[i], call.kwargs, strict)),
                          !.order = Append(@, i)]
  /\ UNCHANGED <<rows, fiducial, derivatives, ret, interpolator, strict, map>>

\* pool.map returns and Emulator.chi2 reshapes its list
Chi2WithPoolReturns ==
  /\ call.active
  /\ \A i \in 1..Len(call.slots) : call.slots[i].st = "done"
  /\ ret' = Called("chi2", call.arg,
                   Reshape(PoolMap(call), NumPoints(call.arg.parameters)), call.chunks)
  /\ call' = NoCall
  /\ UNCHANGED <<rows, fiducial, derivatives, interpolator, strict, map>>

NextEmulator ==
  \/ Train
  \/ \E parameters \in ParameterInputs, split \in SplitArgs : Chi2(parameters, split)
  \/ \E parameters \in ParameterInputs, split \in SplitArgs : Chi2WithPool(parameters, split)
  \/ \E i \in 1..MaxPoints : WorkerTakes(i)
  \/ \E i \in 1..MaxPoints : WorkerReturns(i)
  \/ Chi2WithPoolReturns
  \/ \E t \in Transformations : EmulatorReparametrize(t)
  \/ \E t \in Transformations : EmulatorTransform(t)

SpecEmulator == InitEmulator /\ [][NextEmulator]_vars

(***************************************************************************)
(* Analysis.from_features.  An array argument is [ndim |-> 1 or 2,         *)
(* val |-> its rows], a 1D array holding its one row; the parameters       *)
(* argument is Omitted (None) or Given(array, parameter_index).            *)
(***************************************************************************)
Array1D(v) == [ndim |-> 1, val |-> <<v>>]
Array2D(rs) == [ndim |-> 2, val |-> rs]
Omitted == [given |-> FALSE, array |-> Array2D(<<>>), index |-> <<>>]
Given(array, index) == [given |-> TRUE, array |-> array, index |-> index]

\* a[None] for a 1D array a, a itself for a 2D one: the rows
AsRows(a) == a.val
\* np.arange(len(features))[None]: one row 0, 1, ..., len(features) - 1
Arange(n) == [i \in 1..n |-> i - 1]
DefaultParameters(features) == <<Arange(Len(features))>>
\* np.hstack((a, b)) of two 2D arrays: they must have as many rows
HStack(a, b) ==
  IF Len(a) # Len(b) THEN Raise("ValueError")
  ELSE Return([i \in 1..Len(a) |-> a[i] \o b[i]])
\* cls(data, columns=index): the index labels the first columns parameters and
\* the others features, and must have as many labels as data has columns
Instantiate(data, parameter_index, feature_index) ==
  IF ~data.ok THEN data
  ELSE IF \E i \in 1..Len(data.val) :
            Len(data.val[i]) # Len(parameter_index) + Len(feature_index)
       THEN Raise("ValueError")
  ELSE Return([i \in 1..Len(data.val) |->
                Model(SubSeq(data.val[i], 1, Len(parameter_index)),
                      SubSeq(data.val[i], Len(parameter_index) + 1, Len(data.val[i])))])
FromFeaturesGivenRows(features, parameters, parameter_index) ==
  Instantiate(HStack(parameters, features), parameter_index, Arange(Len(features[1])))
FromFeatures(features, parameters) ==
  IF parameters.given
  THEN FromFeaturesGivenRows(AsRows(features), AsRows(parameters.array), parameters.index)
  ELSE FromFeaturesGivenRows(AsRows(features), DefaultParameters(AsRows(features)), <<"p">>)

RECURSIVE FeatureLists(_)
FeatureLists(n) ==
  IF n = 0 THEN {<<>>}
  ELSE {Append(l, f) : l \in FeatureLists(n - 1), f \in Observations}
FeatureInputs ==
  {Array1D(f) : f \in Observations}
    \cup UNION {{Array2D(l) : l \in FeatureLists(n)} : n \in 1..MaxRows}
ParameterArgs ==
  {Omitted, Given(Array1D(<<2, 0>>), <<"a", "b">>),
   Given(Array2D(<< <<0, 0>>, <<2, 0>> >>), <<"a", "b">>)}

InitAnalysis ==
  /\ rows = <<>>
  /\ fiducial = 0
  /\ derivatives = NoDerivatives
  /\ ret = Called("init", <<>>, Return(<<>>), <<>>)
  /\ interpolator = NoInterpolator
  /\ call = NoCall
  /\ strict = TRUE
  /\ map = NoMap

\* Analysis.from_features(features, parameters): rows become those of the
\* analysis it returns
Built(arg, out) ==
  /\ ret' = Called("from_features", arg, out, <<>>)
  /\ rows' = IF out.ok THEN out.val ELSE <<>>
FromFeaturesCall(features, parameters) ==
  /\ Built([features |-> features, parameters |-> parameters],
           FromFeatures(features, parameters))
  /\ UNCHANGED <<fiducial, derivatives, emulator, map>>

NextFromFeatures ==
  \E features \in FeatureInputs, parameters \in ParameterArgs :
    FromFeaturesCall(features, parameters)

SpecFromFeatures == InitAnalysis /\ [][NextFromFeatures]_vars

(***************************************************************************)
(* A ConvergenceMap under gradient, hessian, minkowskiFunctionals,         *)
(* moments, smooth and addition.                                           *)
(***************************************************************************)
KappaRamp == Pixels(MapSide, LAMBDA i, j : i + 2 * j)
KappaSpike == Pixels(MapSide, LAMBDA i, j : IF i = 1 /\ j = 1 THEN 4 ELSE 0)
Kappas == {KappaRamp, KappaSpike}
\* side angles in degrees, smoothing angles in arcminutes
SideAngles == {1, 2}
SmoothingAngles == {15, 240}
SmoothingKinds == {"gaussian", "tophat"}
\* thresholds of minkowskiFunctionals: None (<<>>) or three edges
ThresholdArgs == {<<>>, <<0, 1, 3>>}
\* right-hand sides of an addition
LargerArray == Pixels(MapSide + 1, LAMBDA i, j : 1)
AddArgs ==
  {RhsMap(ConvergenceMap(KappaSpike, a)) : a \in SideAngles}
    \cup {RhsMap(ConvergenceMap(LargerArray, 1)), RhsFloat(2), RhsInt(2),
          RhsArray(KappaRamp), RhsArray(LargerArray), RhsString}

InitMap ==
  /\ map \in {ConvergenceMap(k, a) : k \in Kappas, a \in SideAngles}
  /\ rows = <<>>
  /\ fiducial = 0
  /\ derivatives = NoDerivatives
  /\ ret = Called("init", <<>>, Return(<<>>), <<>>)
  /\ interpolator = NoInterpolator
  /\ call = NoCall
  /\ strict = TRUE

analysis == <<rows, fiducial, derivatives, emulator>>

\* gradient()
Gradient ==
  /\ map' = MapGradient(map)
  /\ ret' = Called("gradient", <<>>, Return(TopologyGradient(map.kappa)), <<>>)
  /\ UNCHANGED analysis

\* hessian()
Hessian ==
  /\ map' = MapHessian(map)
  /\ ret' = Called("hessian", <<>>, Return(TopologyHessian(map.kappa)), <<>>)
  /\ UNCHANGED analysis

\* minkowskiFunctionals(thresholds) and moments()
Measured(op, arg, r) ==
  /\ map' = r.map
  /\ ret' = Called(op, arg, r.out, r.used)
  /\ UNCHANGED analysis
MinkowskiFunctionals(thresholds) ==
  Measured("minkowskiFunctionals", thresholds, MapMinkowski(map, thresholds))
Moments == Measured("moments", <<>>, MapMoments(map))

\* smooth(angle_in_arcmin, kind, inplace)
Smoothed(arg, r) ==
  /\ map' = r.map
  /\ ret' = Called("smooth", arg, r.out, <<>>)
  /\ UNCHANGED analysis
Smooth(angle_in_arcmin, kind, inplace) ==
  Smoothed([angle_in_arcmin |-> angle_in_arcmin, kind |-> kind, inplace |-> inplace],
           MapSmooth(map, angle_in_arcmin, kind, inplace))

\* map + rhs
Add(rhs) ==
  /\ ret' = Called("__add__", rhs, MapAdd(map, rhs), <<>>)
  /\ UNCHANGED <<map, analysis>>

(***************************************************************************)
(* ConvergenceMap.pdf.  sigma = kappa.std() is kept by its square, the     *)
(* variance, a fraction; a quantity in units of sigma is kept by its       *)
(* coefficient.  A float that is not a number is the fraction 0/0 and an   *)
(* infinite one the fraction 1/0.                                          *)
(***************************************************************************)
NaN == <<0, 0>>
Infinity == <<1, 0>>
\* the square of kappa.std(): the mean of the squares less the square of the mean
Variance(kappa) ==
  RSub(Frac(SumOver(Side(kappa), LAMBDA i, j : kappa[i][j] * kappa[i][j]),
            Side(kappa) * Side(kappa)),
       RMul(Frac(Total(kappa), Side(kappa) * Side(kappa)),
            Frac(Total(kappa), Side(kappa) * Side(kappa))))
\* sigma squared: the variance with norm, 1.0 without
SigmaSquared(kappa, norm) == IF norm THEN Variance(kappa) ELSE <<1, 1>>
\* x >= t * sigma and x <= t * sigma, sigma >= 0 given by its square
AtLeast(x, t, s2) ==
  IF t >= 0 THEN x >= 0 /\ x * x * s2[2] >= t * t * s2[1]
  ELSE x >= 0 \/ x * x * s2[2] <= t * t * s2[1]
AtMost(x, t, s2) ==
  IF t >= 0 THEN x <= 0 \/ x * x * s2[2] <= t * t * s2[1]
  ELSE x <= 0 /\ x * x * s2[2] >= t * t * s2[1]
\* np.histogram: bin n holds the pixels with bins[n] <= x < bins[n+1], the
\* last bin also those equal to its upper edge; bins = thresholds * sigma
InBin(x, thresholds, n, s2) ==
  /\ AtLeast(x, thresholds[n], s2)
  /\ IF n = Len(thresholds) - 1 THEN AtMost(x, thresholds[n + 1], s2)
     ELSE ~AtLeast(x, thresholds[n + 1], s2)
Counts(kappa, thresholds, s2) ==
  [n \in 1..(Len(thresholds) - 1) |->
    SumOver(Side(kappa), LAMBDA i, j : IF InBin(kappa[i][j], thresholds, n, s2) THEN 1 ELSE 0)]
RECURSIVE SumCounts(_, _)
SumCounts(counts, n) == IF n = 0 THEN 0 ELSE SumCounts(counts, n - 1) + counts[n]
\* a faulty variant: the counts divided by their sum only
FractionOfBin(count, width, total, s2) ==
  IF total = 0 THEN NaN
  ELSE IF RIsZero(s2) THEN (IF count = 0 THEN NaN ELSE Infinity)
  ELSE Frac(count, total)
\* density=True: counts / diff(bins) / counts.sum(), in units of 1/sigma;
\* a zero sigma makes every bin width zero
DensityOfBin(count, width, total, s2) ==
  IF total = 0 THEN NaN
  ELSE IF RIsZero(s2) THEN (IF count = 0 THEN NaN ELSE Infinity)
  ELSE Frac(count, width * total)
\* hist * sigma: the coefficient itself, and not a number when sigma is zero
\* and the density infinite or not a number
TimesSigma(h, s2) == IF h[2] = 0 \/ RIsZero(s2) THEN NaN ELSE h
PdfGivenCounts(thresholds, counts, total, s2) ==
  [midpoints |-> Midpoints(thresholds),
   density |-> [n \in 1..Len(counts) |->
                 TimesSigma(DensityOfBin(counts[n], thresholds[n + 1] - thresholds[n],
                                         total, s2), s2)]]
PdfGivenSigma(kappa, thresholds, s2) ==
  PdfGivenCounts(thresholds, Counts(kappa, thresholds, s2),
                 SumCounts(Counts(kappa, thresholds, s2), Len(thresholds) - 1), s2)
\* pdf(thresholds, norm), thresholds <<>> for None
MapPdf(m, thresholds, norm) ==
  IF thresholds = <<>> THEN Raise("AssertionError")
  ELSE Return(PdfGivenSigma(m.kappa, thresholds, SigmaSquared(m.kappa, norm)))

\* the thresholds handed to pdf: None, edges about the pixel values, edges on
\* both sides of zero and edges above every pixel
PdfThresholds == ThresholdArgs \cup {<<-1, 2>>, <<7, 8, 9>>}

\* pdf(thresholds, norm)
Pdf(thresholds, norm) ==
  /\ ret' = Called("pdf", [thresholds |-> thresholds, norm |-> norm],
                   MapPdf(map, thresholds, norm), <<>>)
  /\ UNCHANGED <<map, analysis>>

(***************************************************************************)
(* ConvergenceMap.powerSpectrum and ConvergenceMap.cross.  The Fourier     *)
(* transform and the azimuthal average of the external kernel are kept by  *)
(* a stand-in: the zero mode, the sum of the pixels, and one mode for      *)
(* each pixel, its departure from the mean times the number of pixels;     *)
(* mode (i, j) has the multipole (i + j - 1) / side_angle.                 *)
(***************************************************************************)
\* np.fft.rfft2(kappa)
Rfft2(kappa) ==
  [zero |-> Total(kappa),
   modes |-> Pixels(Side(kappa),
                    LAMBDA i, j : Side(kappa) * Side(kappa) * kappa[i][j] - Total(kappa))]
ModeInBin(i, j, side_angle, l_edges, n) ==
  /\ l_edges[n] * side_angle <= i + j - 1
  /\ i + j - 1 < l_edges[n + 1] * side_angle
\* _topology.rfft2_azimuthal(ft_map1, ft_map2, side_angle, l_edges): for every
\* bin the sum of ft_map1 * ft_map2 over the modes of the bin
Rfft2Azimuthal(ft_map1, ft_map2, side_angle, l_edges) ==
  [n \in 1..(Len(l_edges) - 1) |->
    side_angle * side_angle *
      ((IF l_edges[n] <= 0 /\ 0 < l_edges[n + 1] THEN ft_map1.zero * ft_map2.zero ELSE 0)
       + SumOver(Len(ft_map1.modes),
                 LAMBDA i, j : IF ModeInBin(i, j, side_angle, l_edges, n)
                               THEN ft_map1.modes[i][j] * ft_map2.modes[i][j] ELSE 0))]
SpectrumGivenTransforms(ft_map1, ft_map2, side_angle, l_edges) ==
  Return([l |-> Midpoints(l_edges),
          power |-> Rfft2Azimuthal(ft_map1, ft_map2, side_angle, l_edges)])
\* powerSpectrum(l_edges), l_edges <<>> for None
MapPowerSpectrum(m, l_edges) ==
  IF l_edges = <<>> THEN Raise("AssertionError")
  ELSE SpectrumGivenTransforms(Rfft2(m.kappa), Rfft2(m.kappa), m.side_angle, l_edges)
\* a faulty variant: the side angles are not compared
CrossAnySideAngle(m, other, l_edges) ==
  IF ~(other.type = "ConvergenceMap") THEN Raise("AssertionError")
  ELSE IF ~(Shape(m.kappa) = Shape(other.kappa)) THEN Raise("AssertionError")
  ELSE SpectrumGivenTransforms(Rfft2(m.kappa), Rfft2(other.kappa), m.side_angle, l_edges)
CrossGivenEdges(m, other, l_edges) ==
  IF ~(other.type = "ConvergenceMap") THEN Raise("AssertionError")
  ELSE IF ~(m.side_angle = other.side_angle) THEN Raise("AssertionError")
  ELSE IF ~(Shape(m.kappa) = Shape(other.kappa)) THEN Raise("AssertionError")
  ELSE SpectrumGivenTransforms(Rfft2(m.kappa), Rfft2(other.kappa), m.side_angle, l_edges)
\* cross(other, l_edges), l_edges <<>> for None
MapCross(m, other, l_edges) ==
  IF l_edges = <<>> THEN Raise("AssertionError")
  ELSE CrossGivenEdges(m, other, l_edges)

\* multipole edges: None or three edges
EdgeArgs == {<<>>, <<0, 2, 4>>}
\* the maps crossed with, besides the map itself: other maps of either side
\* angle, a larger map and an array that is not a map
CrossArgs ==
  {RhsMap(ConvergenceMap(KappaSpike, a)) : a \in SideAngles}
    \cup {RhsMap(ConvergenceMap(LargerArray, 1)), RhsArray(KappaRamp)}

\* powerSpectrum(l_edges)
PowerSpectrum(l_edges) ==
  /\ ret' = Called("powerSpectrum", [l_edges |-> l_edges], MapPowerSpectrum(map, l_edges), <<>>)
  /\ UNCHANGED <<map, analysis>>
\* cross(other, l_edges)
Cross(other, l_edges) ==
  /\ ret' = Called("cross", [other |-> other, l_edges |-> l_edges],
                   MapCross(map, other, l_edges), <<>>)
  /\ UNCHANGED <<map, analysis>>
\* cross(self, l_edges)
CrossSelf(l_edges) == Cross(RhsMap(map), l_edges)

NextMap ==
  \/ Gradient
  \/ Hessian
  \/ \E thresholds \in ThresholdArgs : MinkowskiFunctionals(thresholds)
  \/ Moments
  \/ \E a \in SmoothingAngles, kind \in SmoothingKinds, inplace \in BOOLEAN :
       Smooth(a, kind, inplace)
  \/ \E rhs \in AddArgs : Add(rhs)
  \/ \E thresholds \in PdfThresholds, norm \in BOOLEAN : Pdf(thresholds, norm)
  \/ \E l_edges \in EdgeArgs : PowerSpectrum(l_edges)
  \/ \E l_edges \in EdgeArgs : CrossSelf(l_edges)
  \/ \E other \in CrossArgs, l_edges \in EdgeArgs : Cross(other, l_edges)

SpecMap == InitMap /\ [][NextMap]_vars

(***************************************************************************)
(* Analysis.add_models, called on an ensemble or on the ensemble that the  *)
(* previous add_models call returned.                                      *)
(***************************************************************************)
\* self.append(other, ignore_index=True): a new ensemble, the rows of self
\* followed by the rows of other
EnsembleAppend(rs, other) == IF ~other.ok THEN other ELSE Return(rs \o other.val)
\* a faulty variant: the new rows placed before the existing ones
AddModelsNewRowsFirst(rs, parameters, feature) ==
  IF Len(parameters) # Len(feature) THEN Raise("AssertionError")
  ELSE IF Len(parameters[1]) # Len(rs[1].p) THEN Raise("AssertionError")
  ELSE IF Len(feature[1]) # Len(rs[1].f) THEN Raise("AssertionError")
  ELSE Return([i \in 1..Len(parameters) |-> Model(parameters[i], feature[i])] \o rs)
\* add_models from the assertions on, parameters and feature cast to rows
AddModelsGivenRows(rs, parameters, feature) ==
  IF Len(parameters) # Len(feature) THEN Raise("AssertionError")
  ELSE IF Len(parameters[1]) # Len(rs[1].p) THEN Raise("AssertionError")
  ELSE IF Len(feature[1]) # Len(rs[1].f) THEN Raise("AssertionError")
  ELSE EnsembleAppend(rs, Instantiate(HStack(parameters, feature), rs[1].p, rs[1].f))
AnalysisAddModels(rs, parameters, feature) ==
  AddModelsGivenRows(rs, AsRows(parameters), AsRows(feature))

\* the arrays handed to add_models: one row or two, of the width of the
\* ensemble or of another width
ParameterArrays ==
  {Array1D(<<1, 1>>), Array1D(<<1>>), Array2D(<< <<1, 0>>, <<3, 1>> >>)}
FeatureArrays ==
  {Array1D(<<1, 2>>), Array1D(<<1, 2, 3>>), Array2D(<< <<1, 2>>, <<3, 4>> >>)}
\* the ensembles add_models is called on
Receivers == {rows} \cup (IF ret.op = "add_models" /\ ret.ok THEN {ret.val} ELSE {})

\* self.add_models(parameters, feature)
AddModels(self, parameters, feature) ==
  /\ Len(self) < MaxRows
  /\ ret' = Called("add_models", [self |-> self, parameters |-> parameters, feature |-> feature],
                   AnalysisAddModels(self, parameters, feature), <<>>)
  /\ UNCHANGED <<rows, fiducial, derivatives, emulator, map>>

NextAddModels ==
  \E self \in Receivers, parameters \in ParameterArrays, feature \in FeatureArrays :
    AddModels(self, parameters, feature)

SpecAddModels == Init /\ [][NextAddModels]_vars

(***************************************************************************)
(* An Emulator under train(use_parameters), predict, chi2 and              *)
(* chi2Contributions.  use_parameters is "all", a list of column indices   *)
(* or a value that is not a list.                                          *)
(***************************************************************************)
UseAll == [all |-> TRUE, islist |-> FALSE, list |-> <<>>]
UseList(l) == [all |-> FALSE, islist |-> TRUE, list |-> l]
UseTuple(l) == [all |-> FALSE, islist |-> FALSE, list |-> l]
\* self.parameter_set[:,use_parameters]: the listed columns of every row
Columns(rs, list) ==
  [j \in 1..Len(rs) |-> [c \in 1..Len(list) |-> rs[j].p[PyIndex(list[c], NumPar)]]]
\* the list of interpolators train builds over used_parameters
InterpolatorsOver(rs, used_parameters) ==
  [n \in 1..NumBins |->
    InterpolateWrapper(used_parameters, [j \in 1..Len(rs) |-> rs[j].f[n]])]
\* train(use_parameters): the new list of interpolators, or the exception
\* raised before any is built
EmulatorTrainWith(rs, use_parameters) ==
  IF use_parameters.all THEN Return(EmulatorTrain(rs))
  ELSE IF ~use_parameters.islist THEN Raise("AssertionError")
  ELSE IF \E c \in 1..Len(use_parameters.list) : ~PyIndexOk(use_parameters.list[c], NumPar)
       THEN Raise("IndexError")
  ELSE Return(InterpolatorsOver(rs, Columns(rs, use_parameters.list)))
\* a faulty variant: the new interpolators added to the ones already there
TrainAppending(interp, out) ==
  IF out.ok THEN Trained(interp.val \o out.val) ELSE interp
\* self._interpolator after train: a new list when train succeeds
TrainReplacing(interp, out) ==
  IF out.ok THEN Trained(out.val) ELSE interp

\* predict(parameters), the emulator trained: the interpolated feature of a
\* 1D point, one feature per point of an (N,p) array
PredictAll(parameters, features) ==
  IF \E i \in 1..Len(features) : ~features[i].ok THEN Raise("ValueError")
  ELSE IF parameters.ndim = 1 THEN Return(features[1].val)
  ELSE Return([i \in 1..Len(features) |-> features[i].val])
EmulatorPredict(interp, parameters, checked) ==
  PredictAll(parameters,
             [i \in 1..Len(parameters.pts) |->
               PredictPoint(parameters.pts[i], NumBins, interp, checked)])

\* chi2Contributions, the emulator trained: np.outer(residuals, residuals) *
\* covinv, which needs as many residuals as covinv has rows
Outer(residuals, covinv) ==
  [a \in 1..Len(residuals) |->
    [b \in 1..Len(residuals) |-> RMul(RMul(residuals[a], residuals[b]), covinv[a][b])]]
ContributionsGivenInverse(residuals, covinv) ==
  IF ~covinv.ok THEN covinv
  ELSE IF Len(residuals) # Len(covinv.val) THEN Raise("ValueError")
  ELSE Return(Outer(residuals, covinv.val))
Residuals(observed_feature, predicted) ==
  [b \in 1..Len(predicted) |-> RSub(<<observed_feature[((b - 1) % NumBins) + 1], 1>>, predicted[b])]
ContributionsGivenPrediction(parameters, observed_feature, features_covariance, predicted) ==
  IF ~predicted.ok THEN predicted
  ELSE ContributionsGivenInverse(
         Residuals(observed_feature,
                   IF parameters.ndim = 1 THEN predicted.val
                   ELSE Concat([i \in 1..Len(predicted.val) |-> [val |-> predicted.val[i]]],
                               Len(predicted.val))),
         MatInv(RMat(features_covariance)))
\* the checks of chi2Contributions that come before the training
ContributionsChecks(observed_feature, features_covariance) ==
  /\ Len(observed_feature) = NumBins
  /\ Len(features_covariance) = Len(observed_feature)
  /\ \A i \in 1..Len(features_covariance) :
       Len(features_covariance[i]) = Len(observed_feature)

TrainInputs ==
  {UseAll, UseList(<<0>>), UseList(<<1, 0>>), UseList(<<>>), UseList(<<NumPar>>),
   UseTuple(<<0>>)}
ContributionsInputs ==
  {Point1D(PointAt(3)), Points2D(PointList(1, 1)), Points2D(PointList(1, 2))}
ObservedInputs == {EmulatorObserved, <<1>>}

\* Emulator.train(use_parameters)
TrainWith(use_parameters) ==
  /\ interpolator' = TrainReplacing(interpolator, EmulatorTrainWith(rows, use_parameters))
  /\ ret' = Called("train", use_parameters,
                   IF EmulatorTrainWith(rows, use_parameters).ok THEN Return(<<>>)
                   ELSE EmulatorTrainWith(rows, use_parameters), <<>>)
  /\ UNCHANGED <<rows, fiducial, derivatives, call, strict, map>>

\* Emulator.predict(parameters)
Predict(parameters) ==
  /\ interpolator' = EnsureTrained(interpolator, rows)
  /\ ret' = Called("predict", Chi2Arg(parameters, SplitNone, FALSE),
                   EmulatorPredict(interpolator'.val, parameters, strict), <<>>)
  /\ UNCHANGED <<rows, fiducial, derivatives, call, strict, map>>

\* Emulator.chi2Contributions(parameters, observed_feature, features_covariance)
Chi2Contributions(parameters, observed_feature) ==
  /\ IF ContributionsChecks(observed_feature, EmulatorCovariance)
     THEN /\ interpolator' = EnsureTrained(interpolator, rows)
          /\ ret' = Called("chi2Contributions",
                           [Chi2Arg(parameters, SplitNone, FALSE)
                              EXCEPT !.observed_feature = observed_feature],
                           ContributionsGivenPrediction(
                             parameters, observed_feature, EmulatorCovariance,
                             EmulatorPredict(interpolator'.val, parameters, strict)),
                           <<>>)
     ELSE /\ interpolator' = interpolator
          /\ ret' = Called("chi2Contributions",
                           [Chi2Arg(parameters, SplitNone, FALSE)
                              EXCEPT !.observed_feature = observed_feature],
                           Raise("AssertionError"), <<>>)
  /\ UNCHANGED <<rows, fiducial, derivatives, call, strict, map>>

NextTrain ==
  \/ \E use_parameters \in TrainInputs : TrainWith(use_parameters)
  \/ \E parameters \in ParameterInputs : Predict(parameters)
  \/ \E parameters \in ParameterInputs, split \in SplitArgs : Chi2(parameters, split)
  \/ \E parameters \in ContributionsInputs, observed_feature \in ObservedInputs :
       Chi2Contributions(parameters, observed_feature)

SpecTrain == InitEmulator /\ [][NextTrain]_vars

(***************************************************************************)
(* A FisherAnalysis under set_fiducial, chi2 and classify.  An observed    *)
(* feature is [ndim |-> 1, val |-> <<the feature>>] for a 1D array and     *)
(* [ndim |-> 2, val |-> the N features] for an (N,F) array.                *)
(***************************************************************************)
RLess(a, b) == a[1] * b[2] < b[1] * a[2]
\* the checks of chi2 on the shapes of its arguments
Chi2ShapesOk(observed, cov) ==
  /\ \A i \in 1..Len(observed) : Len(observed[i]) = NumBins
  /\ \/ cov.shape = "vector" /\ Len(CovDiagonal(cov)) = NumBins
     \/ /\ cov.shape = "matrix" /\ Len(cov.val) = NumBins
        /\ \A i \in 1..Len(cov.val) : Len(cov.val[i]) = NumBins
\* difference = observed_feature - self.fiducial[None]
Difference(observed, fiducial_feature) ==
  [i \in 1..Len(observed) |-> [b \in 1..NumBins |-> <<observed[i][b] - fiducial_feature[b], 1>>]]
\* ((difference**2)/features_covariance[None]).sum(-1)
Chi2Diagonal(difference, v) ==
  Return([i \in 1..Len(difference) |->
           RSum([b \in 1..NumBins |->
                  RDiv(RMul(difference[i][b], difference[i][b]), <<v[b], 1>>)], NumBins)])
\* (difference * solve(features_covariance, difference.transpose()).transpose()).sum(-1)
Chi2GivenSolved(difference, X) ==
  IF ~X.ok THEN X
  ELSE Return([i \in 1..Len(difference) |->
                RSum([b \in 1..NumBins |-> RMul(difference[i][b], X.val[b][i])], NumBins)])
\* a faulty variant: the difference solved for is the first observation's
Chi2OfFirstDifference(difference, cov) ==
  IF cov.shape = "vector" THEN Chi2Diagonal(difference, CovDiagonal(cov))
  ELSE Chi2GivenSolved(difference,
                       Solve(RMat(cov.val),
                             Transpose([i \in 1..Len(difference) |-> difference[1]], NumBins),
                             Len(difference)))
Chi2GivenDifference(difference, cov) ==
  IF cov.shape = "vector" THEN Chi2Diagonal(difference, CovDiagonal(cov))
  ELSE Chi2GivenSolved(difference,
                       Solve(RMat(cov.val), Transpose(difference, NumBins), Len(difference)))
\* result[0] for a 1D observation, result otherwise
Chi2Result(single, result) ==
  IF ~result.ok THEN result
  ELSE IF single THEN Return(result.val[1])
  ELSE result
\* FisherAnalysis.chi2(observed_feature, features_covariance)
FisherChi2(rs, fid, observed, cov) ==
  IF cov.shape = "none" THEN Raise("AssertionError")
  ELSE IF ~Chi2ShapesOk(observed.val, cov) THEN Raise("AssertionError")
  ELSE IF ~PyIndexOk(fid, Len(rs)) THEN Raise("IndexError")
  ELSE Chi2Result(observed.ndim = 1,
                  Chi2GivenDifference(Difference(observed.val, rs[PyIndex(fid, Len(rs))].f),
                                      cov))

\* the observed features and covariances handed to chi2 and classify
ObservedFeatures ==
  { [ndim |-> 1, val |-> << <<1, 0>> >>], [ndim |-> 1, val |-> << <<1>> >>],
    [ndim |-> 2, val |-> << <<1, 0>>, <<0, 0>> >>],
    [ndim |-> 2, val |-> << <<1, 1>>, <<0, 2>>, <<1, 1>> >>] }
Chi2Covariances == Covariances \cup {CovMatrix(<< <<1, 0>>, <<0, 2>> >>), NoCov}

\* three training rows, in the second set two rows with the same feature
InitClassify ==
  /\ rows \in { << Model(<<0, 0>>, <<0, 0>>), Model(<<2, 0>>, <<1, 1>>), Model(<<0, 1>>, <<1, 0>>) >>,
                << Model(<<0, 0>>, <<0, 0>>), Model(<<2, 0>>, <<0, 0>>), Model(<<0, 1>>, <<1, 0>>) >> }
  /\ fiducial = 0
  /\ derivatives = NoDerivatives
  /\ ret = Called("init", <<>>, Return(<<>>), <<>>)
  /\ interpolator = NoInterpolator
  /\ call = NoCall
  /\ strict = TRUE
  /\ map = NoMap

\* FisherAnalysis.chi2(observed_feature, features_covariance)
FisherChi2Call(observed, cov) ==
  /\ ret' = Called("chi2", [observed_feature |-> observed, features_covariance |-> cov],
                   FisherChi2(rows, fiducial, observed, cov), <<>>)
  /\ UNCHANGED <<rows, fiducial, derivatives, emulator, map>>

\* classify: self.set_fiducial(l) then self.chi2(...) for one label
LabelChi2(rs, l, observed, cov) ==
  IF ~(l < Len(rs)) THEN Raise("AssertionError") ELSE FisherChi2(rs, l, observed, cov)
\* all_chi2 with one row per label, the scalar of a 1D observation as a row of one
AllChi2(rs, labels, observed, cov) ==
  [n \in 1..Len(labels) |-> LabelChi2(rs, labels[n], observed, cov)]
ChiRows(all_chi2, single) ==
  [n \in 1..Len(all_chi2) |-> IF single THEN <<all_chi2[n].val>> ELSE all_chi2[n].val]
\* all_chi2.argmin(0): for observation i the first position of the least value
ArgMin(chi, i) ==
  CHOOSE n \in 1..Len(chi) :
    /\ \A k \in 1..Len(chi) : ~RLess(chi[k][i], chi[n][i])
    /\ \A k \in 1..(n - 1) : RLess(chi[n][i], chi[k][i])
\* a faulty variant: the last position of the least value
ArgMinLast(chi, i) ==
  CHOOSE n \in 1..Len(chi) :
    /\ \A k \in 1..Len(chi) : ~RLess(chi[k][i], chi[n][i])
    /\ \A k \in (n + 1)..Len(chi) : RLess(chi[n][i], chi[k][i])
\* classes[chi2_min==n] = l for every n, l of enumerate(labels)
Classes(chi, labels) == [i \in 1..Len(chi[1]) |-> labels[ArgMin(chi, i)]]
\* confusion_array[n] = (classes==l).sum() / len(classes)
ConfusionArray(classes, labels) ==
  [n \in 1..Len(labels) |->
    Frac(Cardinality({i \in 1..Len(classes) : classes[i] = labels[n]}), Len(classes))]
\* classify from the casting of all_chi2 on.  classes of a 1D observation is
\* an array without dimensions: indexing it by a boolean succeeds or raises
\* IndexError with the numpy at hand (indexable), and it has no len()
ClassifyGivenClasses(classes, labels, single, confusion, indexable) ==
  IF single /\ ~indexable THEN Raise("IndexError")
  ELSE IF confusion THEN
    IF single THEN Raise("TypeError") ELSE Return(ConfusionArray(classes, labels))
  ELSE IF single THEN Return(classes[1])
  ELSE Return(classes)
\* the position of the first label whose set_fiducial or chi2 raises, 0 if none
FirstRaise(all_chi2) ==
  IF \A n \in 1..Len(all_chi2) : all_chi2[n].ok THEN 0
  ELSE CHOOSE n \in 1..Len(all_chi2) :
         ~all_chi2[n].ok /\ \A k \in 1..(n - 1) : all_chi2[k].ok
\* self._fiducial when the loop over the labels stops at position n: the label
\* whose chi2 raised, or the one set before when set_fiducial raised
FiducialLeft(rs, fid, labels, n) ==
  IF ~(labels[n] < Len(rs)) THEN (IF n = 1 THEN fid ELSE labels[n - 1])
  ELSE labels[n]
\* classify from np.array(all_chi2) on, or the exception of the loop;
\* [out |-> outcome, fiducial |-> self._fiducial after the call]
ClassifyGivenChi2(rs, fid, labels, all_chi2, single, confusion, indexable, n) ==
  IF Len(labels) = 0 THEN [out |-> Raise("ValueError"), fiducial |-> fid]
  ELSE IF n > 0 THEN [out |-> all_chi2[n], fiducial |-> FiducialLeft(rs, fid, labels, n)]
  ELSE [out |-> ClassifyGivenClasses(Classes(ChiRows(all_chi2, single), labels), labels,
                                     single, confusion, indexable),
        fiducial |-> fid]
ClassifyGivenAll(rs, fid, labels, all_chi2, single, confusion, indexable) ==
  ClassifyGivenChi2(rs, fid, labels, all_chi2, single, confusion, indexable,
                    FirstRaise(all_chi2))
\* FisherAnalysis.classify(observed_feature, features_covariance, labels, confusion)
FisherClassify(rs, fid, observed, cov, labels, confusion, indexable) ==
  ClassifyGivenAll(rs, fid, labels, AllChi2(rs, labels, observed, cov),
                   observed.ndim = 1, confusion, indexable)

\* the label lists handed to classify: the orderings of the three rows, some
\* of two rows, one with a label that is no row and one with a label that
\* set_fiducial accepts and no row answers to
LabelLists ==
  {l \in [1..3 -> {0, 1, 2}] : \A i, j \in DOMAIN l : i # j => l[i] # l[j]}
    \cup {<<0, 1>>, <<1, 0>>, <<2, 1>>, <<1, 3>>, <<-4, 0>>}
ClassifyObserved ==
  { [ndim |-> 1, val |-> << <<1, 0>> >>],
    [ndim |-> 2, val |-> << <<1, 1>>, <<0, 2>>, <<1, 1>> >>] }

Classified(arg, r) ==
  /\ fiducial' = r.fiducial
  /\ ret' = Called("classify", arg, r.out, <<>>)
  /\ UNCHANGED <<rows, derivatives, emulator, map>>
Classify(observed, cov, labels, confusion, indexable) ==
  Classified([observed_feature |-> observed, features_covariance |-> cov,
              labels |-> labels, confusion |-> confusion],
             FisherClassify(rows, fiducial, observed, cov, labels, confusion, indexable))

NextClassify ==
  \/ \E n \in FiducialArgs : SetFiducial(n)
  \/ \E observed \in ObservedFeatures, cov \in Chi2Covariances : FisherChi2Call(observed, cov)
  \/ \E observed \in ClassifyObserved, cov \in Covariances, labels \in LabelLists,
        confusion \in BOOLEAN :
       \E indexable \in (IF observed.ndim = 1 THEN BOOLEAN ELSE {TRUE}) :
         Classify(observed, cov, labels, confusion, indexable)

SpecClassify == InitClassify /\ [][NextClassify]_vars

(***************************************************************************)
(* Properties of the FisherAnalysis.  They are stated on the rows          *)
(* directly, not through the operators above.                              *)
(***************************************************************************)
\* the fiducial index designates a row, counting as Python does
HasFiducialRow == (0 - Len(rows)) <= fiducial /\ fiducial < Len(rows)
FidPos == IF fiducial < 0 THEN Len(rows) + fiducial + 1 ELSE fiducial + 1
FidRow == rows[FidPos]
Differs(i, p) == rows[i].p[p] # FidRow.p[p]
RowsVarying(p) == {i \in 1..Len(rows) : Differs(i, p)}
ParsVariedIn(i) == {p \in ParIdx : Differs(i, p)}
VariedPars == {p \in ParIdx : RowsVarying(p) # {}}
\* no row varies two parameters; no parameter is varied in two rows
OneAtATime == \A i \in 1..Len(rows) : Cardinality(ParsVariedIn(i)) <= 1
AtMostOnce == \A p \in ParIdx : Cardinality(RowsVarying(p)) <= 1
\* (feature of row i - fiducial feature) / (p in row i - fiducial p)
DifferenceQuotient(i, p) ==
  [b \in 1..NumBins |-> Frac(rows[i].f[b] - FidRow.f[b], rows[i].p[p] - FidRow.p[p])]
\* the finite differences of the current rows about the current fiducial row:
\* one entry per varied parameter, by increasing parameter index
CurrentFiniteDifferences ==
  [n \in 1..Cardinality(VariedPars) |->
    DifferenceQuotient(CHOOSE i \in RowsVarying(SortedSeq(VariedPars)[n]) : TRUE,
                       SortedSeq(VariedPars)[n])]
FiniteDifferencesDefined ==
  Len(rows) >= 2 /\ HasFiducialRow /\ OneAtATime /\ AtMostOnce

\* C1 (as claimed): the derivatives that fit and fisher_matrix use are the
\* finite differences of the current rows about the current fiducial row,
\* whatever add_model, set_fiducial and compute_derivatives calls came before.
C1_UsedDerivativesAreCurrent ==
  (ret.op \in {"fit", "fisher_matrix"} /\ derivatives.has) =>
    /\ FiniteDifferencesDefined
    /\ ret.used = CurrentFiniteDifferences

\* C2 (as claimed): with at least 2 rows and every parameter varied in at most
\* one row, compute_derivatives returns one entry per varied parameter, by
\* increasing parameter index, each the difference quotient of its row.
C2_AsClaimed ==
  (ret.op = "compute_derivatives" /\ Len(rows) >= 2 /\ HasFiducialRow /\ AtMostOnce) =>
    /\ ret.ok
    /\ ret.val = CurrentFiniteDifferences

\* C2 (amended): the same, for analyses in which, moreover, no row varies more
\* than one parameter relative to the fiducial row.
C2_DerivativesAreDifferenceQuotients ==
  (ret.op = "compute_derivatives" /\ FiniteDifferencesDefined) =>
    /\ ret.ok
    /\ Len(ret.val) = Cardinality(VariedPars)
    /\ ret.val = CurrentFiniteDifferences

\* C2 witness: two parameters varied, the first by a step of 2 (a quotient 1/2)
C2_Witness ==
  /\ ret.op = "compute_derivatives" /\ ret.ok
  /\ Len(ret.val) = 2
  /\ ret.val[1] = <<<<1, 2>>, <<1, 2>>>>
  /\ fiducial = 0

\* a covariance as a full matrix, a vector being its diagonal
CovAsMatrix(cov) ==
  IF cov.shape = "matrix" THEN RMat(cov.val)
  ELSE [i \in 1..NumBins |->
         [j \in 1..NumBins |-> IF i = j THEN <<cov.val[1][i], 1>> ELSE RZero]]
\* D.Cov^-1 and the generalized least squares solution (D.Cov^-1.D^T)^-1.D.Cov^-1
WeightedDerivatives(D, cov) == MatMul(D, MatInv(CovAsMatrix(cov)).val, NumBins)
LeastSquares(D, DW) ==
  MatMul(MatInv(MatMul(DW, Transpose(D, NumBins), Len(D))).val, DW, NumBins)
\* fiducial values of the varied parameters plus M.(obs - fiducial feature)
BestFit(M, obs) ==
  [n \in 1..Cardinality(VariedPars) |->
    RAdd(<<FidRow.p[SortedSeq(VariedPars)[n]], 1>>,
         Dot(M[n], [b \in 1..NumBins |-> <<obs[b] - FidRow.f[b], 1>>]))]

\* the analysis of the claim: the fiducial row and one other row, which varies
\* exactly one parameter; fit was called on the feature of that other row
OtherRow == rows[3 - FidPos]
TwoRowFit ==
  /\ ret.op = "fit" /\ Len(rows) = 2 /\ HasFiducialRow
  /\ Cardinality({p \in ParIdx : OtherRow.p[p] # FidRow.p[p]}) = 1
  /\ ret.arg[1] = OtherRow.f
RecoversOtherRow ==
  /\ ret.ok
  /\ ret.val = << <<OtherRow.p[CHOOSE p \in ParIdx : OtherRow.p[p] # FidRow.p[p]], 1>> >>

C5_ComputeDerivativesOutcome ==
  [][(ret'.op = "compute_derivatives" /\ HasFiducialRow) =>
       /\ ret'.ok <=> ~(Len(rows) < 2 \/ ~AtMostOnce \/ ~OneAtATime)
       /\ ret'.ok => derivatives' = [has |-> TRUE, val |-> ret'.val]
       /\ ~ret'.ok => derivatives' = derivatives
       /\ rows' = rows /\ fiducial' = fiducial]_vars

\* C5 witness: a failed compute_derivatives (a parameter varied twice) on an
\* analysis that holds derivatives from an earlier call
C5_Witness ==
  /\ ret.op = "compute_derivatives" /\ ~ret.ok
  /\ derivatives.has /\ Len(rows) >= 2 /\ HasFiducialRow /\ OneAtATime /\ ~AtMostOnce

\* C6 (as claimed): the fiducial index designates an existing row in every
\* reachable state; set_fiducial(n) fails for n >= row count, and every call
\* that succeeds sets it to n with 0 <= n < row count.
C6_FiducialDesignatesRow ==
  /\ 0 <= fiducial /\ fiducial < Len(rows)
  /\ ret.op = "set_fiducial" =>
       /\ ret.arg >= Len(rows) => ~ret.ok
       /\ ret.ok => (fiducial = ret.arg /\ 0 <= ret.arg /\ ret.arg < Len(rows))

(***************************************************************************)
(* Properties of Emulator.chi2, stated on the points and the training set. *)
(***************************************************************************)
\* the chi2 of one point: the sandwich product of observed feature minus the
\* feature interpolated at the point with the inverse covariance
InterpolatedFeature(x) ==
  [b \in 1..NumBins |->
    RbfValue([j \in 1..Len(rows) |-> rows[j].p], [j \in 1..Len(rows) |-> rows[j].f[b]], x)]
Residual(x) == [b \in 1..NumBins |-> <<EmulatorObserved[b] - InterpolatedFeature(x)[b], 1>>]
ExpectedChi2(x) == Dot(MatVec(MatInv(RMat(EmulatorCovariance)).val, Residual(x)), Residual(x))
\* what the call of ret returns when it is made with split_chunks=None
Unchunked ==
  EmulatorChi2(interpolator.val, ret.arg.parameters, ret.arg.observed_feature,
               ret.arg.features_covariance, SplitNone, strict).out
AskedPoints == ret.arg.parameters.pts
AskedChunks == ret.arg.split_chunks.k
Divides(k, n) == k > 0 /\ n % k = 0

\* C7 (as claimed): chi2 with split_chunks=1 returns what it returns with
\* split_chunks=None on the same arguments, for an (N,p) array and for a
\* single point given as a 1D array.
C7_AsClaimed ==
  (ret.op = "chi2" /\ ret.arg.split_chunks = SplitInto(1)) =>
    /\ ret.ok = Unchunked.ok
    /\ ret.ok => ret.val = Unchunked.val

\* C8: on an (N,p) array, chi2 with split_chunks=k succeeds if and only if
\* k > 0 and k divides N; then the chunks are k consecutive slices of N/k
\* points, and the result holds the chi2 of the N points in input order, equal
\* to the unchunked result.
C8_ChunksCoverPointsInOrder ==
  (ret.op = "chi2" /\ ret.arg.split_chunks.given /\ ret.arg.parameters.ndim = 2) =>
    /\ ret.ok <=> Divides(AskedChunks, Len(AskedPoints))
    /\ ret.ok =>
         /\ Len(ret.used) = AskedChunks
         /\ \A n \in 1..AskedChunks :
              ret.used[n] =
                Points2D(SubSeq(AskedPoints,
                                (n - 1) * (Len(AskedPoints) \div AskedChunks) + 1,
                                n * (Len(AskedPoints) \div AskedChunks)))
         /\ Len(ret.val) = Len(AskedPoints)
         /\ \A i \in 1..Len(AskedPoints) : ret.val[i] = ExpectedChi2(AskedPoints[i])
         /\ ret.val = Unchunked.val

\* C8 witness: four points in two chunks, without a pool, the chi2 of the
\* first and last point different
C8_Witness ==
  /\ ret.op = "chi2" /\ ret.ok /\ ~ret.arg.pool
  /\ ret.arg.split_chunks = SplitInto(2)
  /\ ret.arg.parameters.ndim = 2 /\ Len(AskedPoints) = 4
  /\ ret.val[1] # ret.val[4]

\* C9: while a pool evaluates the chunks, no step changes the interpolators,
\* the inverse covariance, the observed feature or the chunks; and whatever the
\* order in which the evaluations complete, chi2 returns what the sequential
\* map over the same chunks gives, the chi2 of the points in input order.
C9_PoolEqualsSequentialMap ==
  [][/\ (call.active /\ call'.active) =>
          /\ interpolator' = interpolator /\ rows' = rows
          /\ call'.kwargs = call.kwargs /\ call'.chunks = call.chunks
     /\ (call.active /\ ~call'.active) =>
          /\ ret'.op = "chi2"
          /\ ret'.ok = Reshape(MapChi2(call.chunks, call.kwargs, strict),
                               NumPoints(call.arg.parameters)).ok
          /\ ret'.val = Reshape(MapChi2(call.chunks, call.kwargs, strict),
                                NumPoints(call.arg.parameters)).val
          /\ (ret'.ok /\ call.arg.parameters.ndim = 2) =>
               \A i \in 1..Len(call.arg.parameters.pts) :
                 ret'.val[i] = ExpectedChi2(call.arg.parameters.pts[i])]_vars

\* C9 witness: two chunks with different results, the second evaluated first
C9_Witness ==
  /\ call.active /\ Len(call.slots) = 2 /\ call.order = <<2, 1>>
  /\ call.slots[1].out.ok /\ call.slots[2].out.ok
  /\ call.slots[1].out.val # call.slots[2].out.val

(***************************************************************************)
(* Property of Analysis.from_features.                                     *)
(***************************************************************************)
\* C10 (as claimed): with parameters omitted, on a features array of n >= 1
\* rows, from_features returns n rows with a single parameter column, row i
\* holding the synthetic index i (counted from 0) and the features of input
\* row i; a 1D features input is a single row.
C10_AsClaimed ==
  (ret.op = "from_features" /\ ~ret.arg.parameters.given) =>
    /\ ret.ok
    /\ Len(rows) = Len(ret.arg.features.val)
    /\ \A i \in 1..Len(rows) :
         rows[i] = Model(<<i - 1>>, ret.arg.features.val[i])

(***************************************************************************)
(* Properties of reparametrize and transform.                              *)
(***************************************************************************)
\* the rows with the transformation applied to the parameters, to the features
Reparametrized(t) == [i \in 1..Len(rows) |-> Model(Apply(t, rows[i].p), rows[i].f)]
Transformed(t) == [i \in 1..Len(rows) |-> Model(rows[i].p, Apply(t, rows[i].f))]

\* C11 (as claimed): reparametrize(transformation) returns a new ensemble with
\* the transformation applied to each row's parameters and the features of the
\* original, and leaves the analysis it is called on unchanged; transform does
\* the same on the features.
C11_AsClaimed ==
  [][/\ ret'.op = "reparametrize" =>
          /\ ret'.ok /\ ret'.val = Reparametrized(ret'.arg)
          /\ rows' = rows /\ fiducial' = fiducial /\ derivatives' = derivatives
     /\ ret'.op = "transform" =>
          /\ ret'.ok /\ ret'.val = Transformed(ret'.arg)
          /\ rows' = rows /\ fiducial' = fiducial /\ derivatives' = derivatives]_vars

(***************************************************************************)
(* Properties of the ConvergenceMap.                                       *)
(***************************************************************************)
\* the derivatives of the current kappa
CurrentDerivatives ==
  [gradient_x |-> TopologyGradient(map.kappa).x, gradient_y |-> TopologyGradient(map.kappa).y,
   hessian_xx |-> TopologyHessian(map.kappa).xx, hessian_yy |-> TopologyHessian(map.kappa).yy,
   hessian_xy |-> TopologyHessian(map.kappa).xy]
IsCurrent(attr, v) == HasAttr(attr) => attr[1] = v

\* C12: after any sequence of gradient, hessian, minkowskiFunctionals, moments
\* and smooth calls, every derivative attribute that is present is the
\* derivative of the current kappa, and minkowskiFunctionals and moments have
\* read the derivatives of the current kappa.
C12_CachedDerivativesAreCurrent ==
  /\ IsCurrent(map.gradient_x, CurrentDerivatives.gradient_x)
  /\ IsCurrent(map.gradient_y, CurrentDerivatives.gradient_y)
  /\ IsCurrent(map.hessian_xx, CurrentDerivatives.hessian_xx)
  /\ IsCurrent(map.hessian_yy, CurrentDerivatives.hessian_yy)
  /\ IsCurrent(map.hessian_xy, CurrentDerivatives.hessian_xy)
  /\ (ret.op \in {"minkowskiFunctionals", "moments"} /\ ret.ok) =>
       ret.used = CurrentDerivatives

\* C12 witness: a map just smoothed in place to a kappa it did not start from,
\* holding gradient and Hessian attributes, the gradient not zero
C12_Witness ==
  /\ ret.op = "smooth" /\ ret.ok /\ ret.arg.inplace
  /\ map.kappa \notin Kappas
  /\ HasAttr(map.gradient_x) /\ HasAttr(map.gradient_y) /\ HasAttr(map.hessian_xx)
  /\ map.gradient_y[1] # Pixels(MapSide, LAMBDA i, j : 0)

\* the right-hand sides the claim accepts
SameShapeAndAngle(rhs) == rhs.side_angle = map.side_angle /\ Shape(rhs.kappa) = Shape(map.kappa)
Addable(rhs) ==
  \/ rhs.type = "ConvergenceMap" /\ SameShapeAndAngle(rhs)
  \/ rhs.type \in {"float", "int"}
  \/ rhs.type = "ndarray" /\ Shape(rhs.kappa) = Shape(map.kappa)
ElementwiseSum(rhs) ==
  [i \in 1..MapSide |-> [j \in 1..MapSide |->
     map.kappa[i][j] + (IF rhs.type \in {"float", "int"} THEN rhs.value ELSE rhs.kappa[i][j])]]

\* C13 (as claimed): map + rhs returns a new map with the same side_angle and
\* the elementwise sum as kappa, and leaves the map unchanged, when rhs is a
\* map of identical shape and side_angle, a scalar (integer or floating
\* point) or an array of matching shape; it fails in every other case.
C13_AsClaimed ==
  [][ret'.op = "__add__" =>
       /\ map' = map
       /\ ret'.ok <=> Addable(ret'.arg)
       /\ ret'.ok => /\ ret'.val.side_angle = map.side_angle
                     /\ ret'.val.kappa = ElementwiseSum(ret'.arg)]_vars

\* C20: smooth with a kind other than "gaussian" fails and changes nothing;
\* with inplace=False it returns a new map with the smoothed kappa and the same
\* side_angle and leaves kappa, side_angle and every derivative attribute of
\* the map unchanged; with inplace=True it overwrites kappa and returns nothing.
SmoothedKappa(angle_in_arcmin) ==
  GaussianFilter(map.kappa, Frac(angle_in_arcmin * MapSide, map.side_angle * 60))
C20_SmoothFrame ==
  [][ret'.op = "smooth" =>
       /\ ret'.arg.kind # "gaussian" => (~ret'.ok /\ map' = map)
       /\ (ret'.arg.kind = "gaussian" /\ ~ret'.arg.inplace) =>
            /\ ret'.ok /\ map' = map
            /\ ret'.val.kappa = SmoothedKappa(ret'.arg.angle_in_arcmin)
            /\ ret'.val.side_angle = map.side_angle
       /\ (ret'.arg.kind = "gaussian" /\ ret'.arg.inplace) =>
            /\ ret'.ok /\ ret'.val = <<>>
            /\ map'.kappa = SmoothedKappa(ret'.arg.angle_in_arcmin)
            /\ map'.side_angle = map.side_angle]_vars

\* C20 witness: smooth with inplace=False has returned a map with another
\* kappa, called on a map that holds gradient and Hessian attributes
C20_Witness ==
  /\ ret.op = "smooth" /\ ret.ok /\ ~ret.arg.inplace
  /\ ret.val.kappa # map.kappa
  /\ HasAttr(map.gradient_x) /\ HasAttr(map.hessian_xy)


\* C14: every input check of an operation comes before any change of state:
\* Emulator.chi2 called on an untrained emulator with an invalid split_chunks
\* (<= 0, or not dividing the number of points) fails and leaves the
\* emulator untrained.
InvalidSplit(arg) ==
  /\ arg.split_chunks.given
  /\ \/ arg.split_chunks.k <= 0
     \/ NumPoints(arg.parameters) % arg.split_chunks.k # 0
C14_AsClaimed ==
  [][(/\ ~call.active /\ ~call'.active
      /\ ret'.op = "chi2"
      /\ ~interpolator.has
      /\ InvalidSplit(ret'.arg))
     => (~ret'.ok /\ ~interpolator'.has)]_vars


\* C15: add_models with k parameter rows and k feature rows of the widths of
\* the existing rows returns the existing rows in their order followed by the
\* k new rows in their order; with differing numbers of rows, another
\* parameter count or another feature shape it fails and adds nothing; so
\* every row of every ensemble it returns has the parameter count and the
\* feature shape of the first row.
NewRows(arg) ==
  [i \in 1..Len(arg.parameters.val) |-> Model(arg.parameters.val[i], arg.feature.val[i])]
Fits(arg) ==
  /\ Len(arg.parameters.val) = Len(arg.feature.val)
  /\ \A i \in 1..Len(arg.parameters.val) : Len(arg.parameters.val[i]) = Len(arg.self[1].p)
  /\ \A i \in 1..Len(arg.feature.val) : Len(arg.feature.val[i]) = Len(arg.self[1].f)
Uniform(rs) ==
  \A i \in 1..Len(rs) : Len(rs[i].p) = Len(rs[1].p) /\ Len(rs[i].f) = Len(rs[1].f)
C15_AddModelsAppendsOrFails ==
  [][ret'.op = "add_models" =>
       /\ rows' = rows
       /\ IF Fits(ret'.arg)
          THEN ret'.ok /\ ret'.val = ret'.arg.self \o NewRows(ret'.arg) /\ Uniform(ret'.val)
          ELSE ~ret'.ok]_vars
C15_Witness ==
  /\ ret.op = "add_models" /\ ret.ok
  /\ ret.arg.self # rows
  /\ Len(ret.arg.parameters.val) = 2
  /\ Len(ret.val) = Len(rows) + 3


\* C16: the emulator, when trained, holds exactly one interpolator per
\* feature bin; predict, chi2 and chi2Contributions called on an untrained
\* emulator (their argument checks passed) train it over all the parameters
\* first; every successful train call leaves the interpolators of its own
\* use_parameters, whatever was there before.
ValuesOfBin(n) == [j \in 1..Len(rows) |-> rows[j].f[n]]
IsTrainingOver(list, nodes) ==
  /\ Len(list) = NumBins
  /\ \A n \in 1..NumBins : list[n].values = ValuesOfBin(n) /\ list[n].nodes = nodes
AllParameters == [j \in 1..Len(rows) |-> rows[j].p]
ListedParameters(list) ==
  [j \in 1..Len(rows) |-> [c \in 1..Len(list) |-> rows[j].p[list[c] + 1]]]
UsesInterpolators(r) ==
  \/ r.op \in {"predict", "chi2"}
  \/ r.op = "chi2Contributions" /\ Len(r.arg.observed_feature) = NumBins
C16_OneInterpolatorPerBin ==
  [][/\ interpolator'.has => Len(interpolator'.val) = NumBins
     /\ (UsesInterpolators(ret') /\ ~interpolator.has)
          => (interpolator'.has /\ IsTrainingOver(interpolator'.val, AllParameters))
     /\ (ret'.op = "train" /\ ret'.ok)
          => /\ interpolator'.has
             /\ IsTrainingOver(interpolator'.val,
                               IF ret'.arg.all THEN AllParameters
                               ELSE ListedParameters(ret'.arg.list))]_vars
C16_Witness ==
  /\ ret.op = "train" /\ ret.ok /\ ret.arg.islist /\ Len(ret.arg.list) = 1
  /\ interpolator.has /\ Len(interpolator.val) = NumBins
  /\ Len(interpolator.val[1].nodes[1]) = 1


\* C18: FisherAnalysis.chi2(observed, covariance), the fiducial index
\* designating a row and the arguments of the right shapes, returns for
\* each observed feature d.Cov^-1.d with d = observed - fiducial feature, a
\* vector covariance v standing for diag(v), so that the value is the sum
\* over the bins of d_i^2 / v_i; a 1D observation gives a scalar and an
\* (N,F) batch gives N values in the order of the input.
ValidChi2Args(arg) ==
  /\ arg.features_covariance.shape # "none"
  /\ \A i \in 1..Len(arg.observed_feature.val) : Len(arg.observed_feature.val[i]) = NumBins
ObservedDifference(arg, i) ==
  [b \in 1..NumBins |-> <<arg.observed_feature.val[i][b] - FidRow.f[b], 1>>]
QuadraticForm(d, A) == Dot(d, MatVec(A, d))
ExpectedChi2Of(arg, i) ==
  QuadraticForm(ObservedDifference(arg, i), MatInv(CovAsMatrix(arg.features_covariance)).val)
SumOfSquaresOver(d, v) ==
  RSum([b \in 1..NumBins |-> RDiv(RMul(d[b], d[b]), <<v[b], 1>>)], NumBins)
C18_Chi2IsQuadraticForm ==
  (ret.op = "chi2" /\ HasFiducialRow /\ ValidChi2Args(ret.arg)) =>
    /\ ret.ok
    /\ IF ret.arg.observed_feature.ndim = 1
       THEN ret.val = ExpectedChi2Of(ret.arg, 1)
       ELSE ret.val = [i \in 1..Len(ret.arg.observed_feature.val) |-> ExpectedChi2Of(ret.arg, i)]
    /\ ret.arg.features_covariance.shape = "vector" =>
         \A i \in 1..Len(ret.arg.observed_feature.val) :
           ExpectedChi2Of(ret.arg, i)
             = SumOfSquaresOver(ObservedDifference(ret.arg, i), ret.arg.features_covariance.val[1])
C18_Witness ==
  /\ ret.op = "chi2" /\ ret.ok /\ HasFiducialRow /\ fiducial # 0
  /\ ret.arg.observed_feature.ndim = 2 /\ Len(ret.val) = 3
  /\ ret.arg.features_covariance.shape = "matrix"
  /\ ret.val[1] # ret.val[2] /\ ret.val[1] # RZero


\* C17: classify assigns to every observed feature the label of `labels`
\* whose row, taken as the fiducial, gives the least chi2 (the earliest such
\* label on a tie), for any ordering of distinct labels; with confusion=True
\* it returns for the n-th label the fraction of the observations assigned
\* that label, and the fractions sum to 1.
ValidLabels(labels) ==
  /\ \A n \in 1..Len(labels) : labels[n] \in 0..(Len(rows) - 1)
  /\ \A n, k \in 1..Len(labels) : n # k => labels[n] # labels[k]
Chi2WithLabel(arg, l, i) ==
  QuadraticForm([b \in 1..NumBins |-> <<arg.observed_feature.val[i][b] - rows[l + 1].f[b], 1>>],
                MatInv(CovAsMatrix(arg.features_covariance)).val)
IsBest(arg, i, n) ==
  /\ \A k \in 1..Len(arg.labels) :
       ~RLess(Chi2WithLabel(arg, arg.labels[k], i), Chi2WithLabel(arg, arg.labels[n], i))
  /\ \A k \in 1..(n - 1) :
       RLess(Chi2WithLabel(arg, arg.labels[n], i), Chi2WithLabel(arg, arg.labels[k], i))
Assigned(arg, i) == arg.labels[CHOOSE n \in 1..Len(arg.labels) : IsBest(arg, i, n)]
NumObserved(arg) == Len(arg.observed_feature.val)
FractionAssigned(arg, n) ==
  Frac(Cardinality({i \in 1..NumObserved(arg) : Assigned(arg, i) = arg.labels[n]}),
       NumObserved(arg))
ClassifiedAsClaimed(r) ==
  /\ r.ok
  /\ IF r.arg.confusion
     THEN /\ r.val = [n \in 1..Len(r.arg.labels) |-> FractionAssigned(r.arg, n)]
          /\ RSum(r.val, Len(r.val)) = <<1, 1>>
     ELSE IF r.arg.observed_feature.ndim = 1 THEN r.val = Assigned(r.arg, 1)
     ELSE r.val = [i \in 1..NumObserved(r.arg) |-> Assigned(r.arg, i)]
C17_AsClaimed ==
  (ret.op = "classify" /\ ValidLabels(ret.arg.labels)) => ClassifiedAsClaimed(ret)


\* C19 (as claimed): on derivatives D, fisher_matrix(sim_cov) returns
\* D.sim_cov^-1.D^T (a vector covariance standing for a diagonal matrix);
\* fisher_matrix(sim_cov, obs_cov) returns the inverse of M.obs_cov.M^T with
\* M = (D.sim_cov^-1.D^T)^-1.D.sim_cov^-1; with obs_cov equal to a symmetric
\* sim_cov it returns the matrix returned when obs_cov is omitted.
FisherOf(D, cov) == MatMul(WeightedDerivatives(D, cov), Transpose(D, NumBins), Len(D))
PropagatedCovariance(M, obs_cov, k) ==
  MatMul(MatMul(M, CovAsMatrix(obs_cov), NumBins), Transpose(M, NumBins), k)
Propagated(D, sim_cov, obs_cov) ==
  PropagatedCovariance(LeastSquares(D, WeightedDerivatives(D, sim_cov)), obs_cov, Len(D))
Identity(k) == [i \in 1..k |-> [j \in 1..k |-> IF i = j THEN <<1, 1>> ELSE RZero]]
\* X is the inverse of the square matrix P
IsInverseOf(X, P) == Len(X) = Len(P) /\ MatMul(X, P, Len(P)) = Identity(Len(P))
OnDerivatives == ret.op = "fisher_matrix" /\ Len(ret.used) > 0
ReturnsFisher == ret.ok /\ ret.val = FisherOf(ret.used, ret.arg[1])
ReturnsPropagated ==
  /\ ret.ok
  /\ IsInverseOf(ret.val, Propagated(ret.used, ret.arg[1], ret.arg[2]))
  /\ ret.arg[2] = ret.arg[1] => ret.val = FisherOf(ret.used, ret.arg[1])
FisherIsRegular == MatInv(FisherOf(ret.used, ret.arg[1])).ok
C23_AsClaimed == [][ret'.op = "classify" => fiducial' = fiducial]_vars


(***************************************************************************)
(* Properties of ConvergenceMap.pdf.                                       *)
(***************************************************************************)
PairwiseAverages(thresholds) ==
  [n \in 1..(Len(thresholds) - 1) |-> Frac(thresholds[n] + thresholds[n + 1], 2)]
RECURSIVE Integral(_, _, _)
Integral(density, thresholds, n) ==
  IF n = 0 THEN <<0, 1>>
  ELSE RAdd(Integral(density, thresholds, n - 1),
            RMul(density[n], <<thresholds[n + 1] - thresholds[n], 1>>))
IsNumber(q) == q[2] # 0
Normalised(density, thresholds) ==
  /\ \A n \in 1..Len(density) : IsNumber(density[n])
  /\ Integral(density, thresholds, Len(density)) = <<1, 1>>
PdfReturned == ret.op = "pdf" /\ ret.ok
\* some pixel lies between the first and the last threshold, taken in units
\* of sigma with norm, and sigma is not zero
PixelInRange(kappa, thresholds, norm) ==
  /\ ~RIsZero(SigmaSquared(kappa, norm))
  /\ \E i, j \in 1..Side(kappa) :
       /\ AtLeast(kappa[i][j], thresholds[1], SigmaSquared(kappa, norm))
       /\ AtMost(kappa[i][j], thresholds[Len(thresholds)], SigmaSquared(kappa, norm))

CrossCalled == ret.op = "cross"
CrossedWithItself == CrossCalled /\ ret.arg.other = RhsMap(map)
OtherMapDiffers ==
  /\ CrossCalled /\ ret.arg.other.type = "ConvergenceMap"
  /\ \/ ret.arg.other.side_angle # map.side_angle
     \/ Shape(ret.arg.other.kappa) # Shape(map.kappa)

\* C21: for every ConvergenceMap m and every valid l_edges, m.cross(m, l_edges)
\* returns the same midpoints and the same spectrum as m.powerSpectrum(l_edges);
\* cross with another map fails when the other map's side_angle or pixel
\* shape differs from m's.
C21_CrossWithItselfIsPowerSpectrum ==
  /\ CrossedWithItself /\ ret.arg.l_edges # <<>> =>
       /\ ret.ok /\ MapPowerSpectrum(map, ret.arg.l_edges).ok
       /\ ret.val.l = MapPowerSpectrum(map, ret.arg.l_edges).val.l
       /\ ret.val.power = MapPowerSpectrum(map, ret.arg.l_edges).val.power
  /\ OtherMapDiffers => ~ret.ok
C21_Witness ==
  /\ CrossedWithItself /\ ret.ok
  /\ Len(ret.val.power) = 2
  /\ ret.val.power[1] # ret.val.power[2]
  /\ ret.val.power[1] # 0 /\ ret.val.power[2] # 0
====
